---- MODULE Spec2Model ----
(***************************************************************************)
(* Storefront theme widgets: quantity control, cart client (CartHandler),  *)
(* cart badge (CartIcon) and cart drawer (CartDrawer), modelled as state   *)
(* machines over the DOM fields they write and the fetches they issue.     *)
(***************************************************************************)
EXTENDS Integers, Sequences, FiniteSets, Bags, TLC

(***************************************************************************)
(* JavaScript numbers and strings.  A text is a sequence of one-character  *)
(* tokens; a token that is neither a sign nor a digit is junk for parseInt.*)
(***************************************************************************)
NaN == -1000000
Infinity == 1000000

DigitChars == <<"0", "1", "2", "3", "4", "5", "6", "7", "8", "9">>

IsDigit(c) == \E i \in 1..10 : DigitChars[i] = c

DigitVal(c) == (CHOOSE i \in 1..10 : DigitChars[i] = c) - 1

\* the value of the longest prefix of digits of s, given the digits read so far
RECURSIVE ParseDigits(_, _, _)
ParseDigits(s, acc, seen) ==
  IF s = <<>> \/ ~IsDigit(Head(s))
  THEN (IF seen THEN acc ELSE NaN)
  ELSE ParseDigits(Tail(s), acc * 10 + DigitVal(Head(s)), TRUE)

\* parseInt(s, 10)
ParseInt(s) ==
  IF s = <<>> THEN NaN
  ELSE IF Head(s) = "-"
       THEN (LET m == ParseDigits(Tail(s), 0, FALSE) IN IF m = NaN THEN NaN ELSE 0 - m)
       ELSE ParseDigits(s, 0, FALSE)

RECURSIVE NatToText(_)
NatToText(n) ==
  IF n < 10 THEN <<DigitChars[n + 1]>>
  ELSE NatToText(n \div 10) \o <<DigitChars[(n % 10) + 1]>>

\* String(n), also the conversion an assignment to input.value or textContent applies
ToText(n) ==
  IF n = NaN THEN <<"NaN">>
  ELSE IF n = Infinity THEN <<"Infinity">>
  ELSE IF n < 0 THEN <<"-">> \o NatToText(0 - n)
  ELSE NatToText(n)

\* a || d  for numbers: 0 and NaN are falsy
OrElse(a, d) == IF a = NaN \/ a = 0 THEN d ELSE a

\* a < b and a > b: false as soon as one side is NaN
JsLt(a, b) == a # NaN /\ b # NaN /\ a < b
JsGt(a, b) == a # NaN /\ b # NaN /\ a > b

\* a + b
JsAdd(a, b) == IF a = NaN \/ b = NaN THEN NaN ELSE a + b

(***************************************************************************)
(* Bounds                                                                  *)
(***************************************************************************)
\* the stepper is not clicked upwards beyond this value
MaxQty == 12

\* texts a user can type into a quantity input
RawInputs ==
  { <<>>, <<"a">>, <<"0">>, <<"2">>, <<"7">>, <<"-", "3">>, <<"-", "a">>,
    <<"2", "a">>, <<"1", "0">> }

\* CartHandler invocations per behaviour
MaxOps == 2

\* cart:update notifications of other components per behaviour
MaxEvents == 2

\* fetches that fail per behaviour
MaxFailures == 1

\* a new invocation starts while at most this many fetches and timers are pending
MaxPending == 1

\* connectedCallback of a <hero-slideshow> runs at most this often per behaviour
MaxConnects == 2

\* texts of the min and max attributes of a quantity input
AttrTexts == { <<>>, <<"0">>, <<"1">>, <<"3">>, <<"-", "2">> }

VARIABLES
  qsValue,      \* QuantitySelector: input.value
  qsMin,        \* QuantitySelector: input.min
  qsMax,        \* QuantitySelector: input.max
  qsChanges,    \* QuantitySelector: change events dispatched by the last handler
  qsLast        \* QuantitySelector: the handler that ran last and the value it started from

VARIABLES
  srvCart,      \* the platform's cart: quantity of every line (0: the line is absent)
  net,          \* bag of the fetches in flight, each with the continuation awaiting it
  timers,       \* bag of the pending setTimeout callbacks
  lastFetched,  \* per badge, the item_count of the /cart.js fetch the platform answered last
  ops,          \* the CartHandler invocations made so far and what each of them did
  cfg,          \* the page: which elements exist, whether window.fetch is wrapped,
                \* the connected <cart-icon> instances
  hdrCount,     \* the [data-cart-count] elements: textContent and the hidden class
  bubble,       \* CartIcon: cartBubbleCount text, hidden classes, session storage
  drawer,       \* CartDrawer: aria-hidden, item list, footer, count in the header
  dispatched,   \* the cart:update events dispatched on the document so far
  failures,     \* the fetches that have failed so far
  events        \* the last cart:update notification of another component, and their number

VARIABLES
  fly           \* the <fly-to-cart> elements created so far, each with its closure state

VARIABLES
  doc,          \* document.body's scroll-lock class and inline styles, and the window's
                \* scroll position and width
  dialog,       \* DialogComponent: the <dialog>, #previousScrollY, what it has scheduled
  card,         \* ProductCardAddToCart: the button of a product card and its requests
  hero,         \* HeroSlideshow: its fields, its slides and dots, its timers
  section       \* a slideshow-with-text section: the closure of its initialisation,
                \* its slides and dots, its timers

qsVars == <<qsValue, qsMin, qsMax, qsChanges, qsLast>>

flyVars == <<fly>>

showVars == <<hero, section>>

uiVars == <<doc, dialog, card, hero, section>>

cartVars == <<srvCart, net, timers, lastFetched, ops, cfg, hdrCount, bubble, drawer,
              dispatched, failures, events>>

vars == <<qsValue, qsMin, qsMax, qsChanges, qsLast,
          srvCart, net, timers, lastFetched, ops, cfg, hdrCount, bubble, drawer,
          dispatched, failures, events, fly, doc, dialog, card, hero, section>>


(***************************************************************************)
(* The platform's cart and the page                                        *)
(***************************************************************************)
\* line keys; a variant id stands for the line holding that variant
Lines == {"a", "b"}

EmptyCart == [l \in Lines |-> 0]

RECURSIVE SumOver(_, _)
SumOver(cart, ls) ==
  IF ls = {} THEN 0
  ELSE LET l == CHOOSE x \in ls : TRUE IN cart[l] + SumOver(cart, ls \ {l})

\* item_count of /cart.js
ItemCount(cart) == SumOver(cart, Lines)

\* the item list the drawer template renders for a cart
RenderItems(cart) ==
  [l \in Lines |-> [present |-> cart[l] > 0,
                    removing |-> FALSE,
                    bound |-> FALSE,
                    value |-> IF cart[l] > 0 THEN ToText(cart[l]) ELSE <<>>]]

\* bindEvents: every remove button and quantity selector in the drawer is bound
BindEvents(items) == [l \in Lines |-> [items[l] EXCEPT !.bound = items[l].present]]

\* the count the drawer template renders in its header
RenderDrawerCount(cart) ==
  IF ItemCount(cart) > 0 THEN <<"(">> \o ToText(ItemCount(cart)) \o <<")">> ELSE <<>>

\* the drawer as the template renders it for a cart
\* openedAt: window.scrollY when open() last found the drawer closed
RenderDrawer(cart, open) ==
  [open |-> open,
   items |-> BindEvents(RenderItems(cart)),
   footer |-> ItemCount(cart) > 0,
   count |-> RenderDrawerCount(cart),
   openedAt |-> 0]

\* sessionStorage.getItem('cart-count') without a record, and with a record
\* JSON.parse throws on
NoRecord == <<"null">>
Unparsable == <<"{">>

\* the cart bubble as the template renders it for a cart; stored and age: the
\* value of the record in session storage and Date.now() - timestamp in ms
RenderBubble(cart) ==
  [text |-> IF ItemCount(cart) < 100 THEN ToText(ItemCount(cart)) ELSE <<>>,
   hidden |-> ItemCount(cart) = 0,
   hasCart |-> ItemCount(cart) > 0,
   stored |-> NoRecord,
   age |-> 0,
   animates |-> FALSE,
   renders |-> 0]

\* the [data-cart-count] elements as the template renders them
RenderHdrCount(cart) ==
  [text |-> ToText(ItemCount(cart)), hidden |-> ItemCount(cart) = 0]

\* itemCount of a notification that carries none
Undefined == NaN - 1

NoEvent == [seq |-> 0, itemCount |-> Undefined, source |-> "none", didError |-> FALSE,
            before |-> <<>>]

\* the cart when the page was rendered
InitCarts == { [EmptyCart EXCEPT !["a"] = 1] }

\* the <cart-icon> instances: 1 is the first one to connect, 2 one that a
\* re-rendered header brings later
IconIds == {1, 2}

\* what a <cart-icon> instance shows
Shown(b) == [text |-> b.text, hidden |-> b.hidden, hasCart |-> b.hasCart]

\* a page.  icons: the connected instances; self: the instance the fetch
\* wrapper calls back (0: none); installs: how often fetch has been wrapped;
\* second: what instance 2 shows
Page(b, cart) ==
  [cartIcon |-> b, intercepted |-> b,
   icons |-> IF b THEN {1} ELSE {}, self |-> IF b THEN 1 ELSE 0,
   installs |-> IF b THEN 1 ELSE 0,
   second |-> Shown(RenderBubble(cart))]

\* the pages: with the header's cart button and the <cart-icon> in it, or without
Pages == { Page(b, cart) : b \in BOOLEAN, cart \in InitCarts }

\* getAttribute of an attribute the element does not have
NoAttr == <<"null">>

\* document.body and the window after the page has loaded
InitDoc ==
  [overflowHidden |-> FALSE, width |-> <<>>, position |-> <<>>, top |-> <<>>,
   scrollY |-> 0, innerWidth |-> 700]

\* a <dialog-component> after construction.  frames: the scrollY each pending
\* requestAnimationFrame callback of showDialog holds; closes: the closeDialog
\* calls awaiting the exit animation; handlers: #handleClick and #handleKeyDown
\* are attached; listening: #handleResize is attached to the window; resize: the
\* debounce timer of #handleResize is pending; openedFrom: the scrollY held by
\* the callback that last showed the modal; showModals: the calls of
\* showModal since the dialog was last closed; lastEvent: the event dispatched
\* last; repeated: an event was dispatched that the same event preceded, or a
\* dialog:close that no dialog:open preceded
InitDialog ==
  [open |-> FALSE, closing |-> FALSE, previousScrollY |-> 0, frames |-> <<>>,
   closes |-> 0, handlers |-> FALSE, minWidth |-> NoAttr, maxWidth |-> NoAttr,
   listening |-> FALSE, resize |-> FALSE, openedFrom |-> 0,
   showModals |-> 0, lastEvent |-> "none", repeated |-> FALSE]

\* a button of a product card as rendered.  cart: window.cart exists;
\* awaiting: the addItem invocations addToCart awaits in addWithGlobalCart;
\* succeeded, reverted: the invocations whose addToCart ran to its end, and
\* those whose addToCart ran its catch block; added: the product-card:added
\* events dispatched; resets: pending 2000 ms timers
InitCard ==
  [state |-> "default", disabled |-> FALSE, busy |-> FALSE, cart |-> FALSE,
   variantId |-> "b", awaiting |-> {}, succeeded |-> {}, reverted |-> {},
   added |-> 0, resets |-> 0]

\* a <hero-slideshow> as constructed, on a visible page.  n: slides.length;
\* shown: the slides whose aria-hidden is "false"; transparent: the slides
\* whose style.opacity is '0'; activeDots: the dots with the class is-active;
\* autoplayInterval: the field holds a timer id; intervals: the setInterval
\* timers that run; releases: pending 500 ms timers; listeners: the times
\* bindEvents has run; hover: the pointer is over the element; hidden:
\* document.hidden; elements: the .hero-slideshow__slide elements of the
\* markup; call: what ran last
InitHero ==
  [connected |-> FALSE, n |-> 0, currentIndex |-> 0, isAnimating |-> FALSE,
   shown |-> {}, transparent |-> {}, activeDots |-> {},
   autoplayInterval |-> FALSE, intervals |-> 0, releases |-> 0,
   listeners |-> 0, hover |-> FALSE, hidden |-> FALSE, elements |-> 0,
   call |-> "none"]

\* a page without a slideshow-with-text section.  n: contents.length; active,
\* exiting: the slides (content and image) with the class --active and
\* --exiting; activeDots: the dots with the class --active; autoplayTimer:
\* the variable holds a timer id; intervals: the setInterval timers that run;
\* swaps: the pending 500 ms timers that show the new slide, each with
\* oldIndex and index; releases: the pending 500 ms timers that reset the lock
InitSection ==
  [n |-> 0, currentIndex |-> 0, isAnimating |-> FALSE, autoplayEnabled |-> FALSE,
   active |-> {}, exiting |-> {}, activeDots |-> {},
   autoplayTimer |-> FALSE, intervals |-> 0, swaps |-> {}, releases |-> 0,
   hover |-> FALSE]

InitCart ==
  /\ srvCart \in InitCarts
  /\ net = EmptyBag
  /\ timers = EmptyBag
  /\ lastFetched = [hdr |-> NaN, bubble |-> NaN]
  /\ ops = <<>>
  /\ cfg \in { Page(b, srvCart) : b \in BOOLEAN }
  /\ hdrCount = RenderHdrCount(srvCart)
  /\ bubble = RenderBubble(srvCart)
  /\ drawer \in { RenderDrawer(srvCart, o) : o \in BOOLEAN }
  /\ dispatched = 0
  /\ failures = 0
  /\ events = NoEvent
  /\ fly = <<>>
  /\ doc = [InitDoc EXCEPT !.overflowHidden = drawer.open]
  /\ dialog = InitDialog
  /\ card = InitCard
  /\ hero = InitHero
  /\ section = InitSection

\* a page rendered for an empty cart, without the cart icon
IdleShop ==
  /\ srvCart = EmptyCart
  /\ net = EmptyBag
  /\ timers = EmptyBag
  /\ lastFetched = [hdr |-> NaN, bubble |-> NaN]
  /\ ops = <<>>
  /\ cfg = Page(FALSE, srvCart)
  /\ hdrCount = RenderHdrCount(srvCart)
  /\ bubble = RenderBubble(srvCart)
  /\ drawer = RenderDrawer(srvCart, FALSE)
  /\ dispatched = 0
  /\ failures = 0
  /\ events = NoEvent
  /\ fly = <<>>

\* the quantity control is on a page of its own
IdleCart ==
  /\ IdleShop
  /\ doc = InitDoc
  /\ dialog = InitDialog
  /\ card = InitCard
  /\ hero = InitHero
  /\ section = InitSection

(***************************************************************************)
(* QuantitySelector (global.js)                                            *)
(***************************************************************************)
\* validate(): the text of input.value after the change listener has run
Validate(value, minAttr, maxAttr) ==
  LET v == ParseInt(value)
      min == OrElse(ParseInt(minAttr), 0)
      max == OrElse(ParseInt(maxAttr), Infinity)
  IN IF v = NaN \/ JsLt(v, min) THEN ToText(min)
     ELSE IF JsGt(v, max) THEN ToText(max)
     ELSE value

\* the configured bounds: an attribute that is absent sets no bound
QsHasMin == ParseInt(qsMin) # NaN
QsHasMax == ParseInt(qsMax) # NaN

\* the lower bound of the control: the min attribute, 0 when it is absent
QsLowerBound == IF QsHasMin THEN ParseInt(qsMin) ELSE 0

\* a template sets min <= max
QsConfigOk == QsHasMax => QsLowerBound <= ParseInt(qsMax)

QsInRange(v) ==
  /\ v # NaN
  /\ QsHasMin => v >= ParseInt(qsMin)
  /\ QsHasMax => v <= ParseInt(qsMax)

InitQS ==
  /\ qsMin \in AttrTexts
  /\ qsMax \in AttrTexts
  /\ QsConfigOk
  /\ \E v \in -2..3 : QsInRange(v) /\ v >= QsLowerBound /\ qsValue = ToText(v)
  /\ qsChanges = 0
  /\ qsLast = [op |-> "init", from |-> <<>>]
  /\ IdleCart

\* click on the minus button
Decrease ==
  LET currentValue == ParseInt(qsValue)
      min == OrElse(ParseInt(qsMin), 0)
  IN /\ qsLast' = [op |-> "decrease", from |-> qsValue]
     /\ IF JsGt(currentValue, min)
        THEN /\ qsValue' = Validate(ToText(currentValue - 1), qsMin, qsMax)
             /\ qsChanges' = 1
        ELSE /\ qsValue' = qsValue
             /\ qsChanges' = 0
     /\ UNCHANGED <<qsMin, qsMax>>
     /\ UNCHANGED <<cartVars, flyVars, uiVars>>

\* click on the plus button
Increase ==
  LET currentValue == ParseInt(qsValue)
      max == OrElse(ParseInt(qsMax), Infinity)
  IN /\ JsLt(currentValue, MaxQty) \/ ~JsLt(currentValue, max)
     /\ qsLast' = [op |-> "increase", from |-> qsValue]
     /\ IF JsLt(currentValue, max)
        THEN /\ qsValue' = Validate(ToText(currentValue + 1), qsMin, qsMax)
             /\ qsChanges' = 1
        ELSE /\ qsValue' = qsValue
             /\ qsChanges' = 0
     /\ UNCHANGED <<qsMin, qsMax>>
     /\ UNCHANGED <<cartVars, flyVars, uiVars>>

\* the user types a text into the input and commits it: the browser fires change
DirectInput ==
  \E raw \in RawInputs :
    /\ qsLast' = [op |-> "input", from |-> raw]
    /\ qsValue' = Validate(raw, qsMin, qsMax)
    /\ qsChanges' = 0
    /\ UNCHANGED <<qsMin, qsMax>>
    /\ UNCHANGED <<cartVars, flyVars, uiVars>>

NextQS == Decrease \/ Increase \/ DirectInput

SpecQS == InitQS /\ [][NextQS]_vars


(***************************************************************************)
(* Fetches, the platform and window.fetch as CartIcon wraps it             *)
(***************************************************************************)
\* fetch(url): the request and the continuation awaiting it.  live: the DOM
\* nodes the continuation holds are still in the document
NewReq(url, cont, op, key, qty) ==
  [url |-> url, cont |-> cont, op |-> op, key |-> key, qty |-> qty, live |-> TRUE,
   phase |-> "sent", status |-> "none", cart |-> EmptyCart]

One(x) == SetToBag({x})

\* how a fetch can fail: a 200 carrying an error payload, a non-OK status with
\* a JSON error body, or a network failure
Failures(url) ==
  IF url \in {"add", "change"} THEN {"errpayload", "notok", "reject"}
  ELSE {"notok", "reject"}

\* the platform's cart after it has accepted a request
CartAfter(r) ==
  IF r.url = "add" THEN [srvCart EXCEPT ![r.key] = @ + r.qty]
  ELSE IF r.url = "change" THEN [srvCart EXCEPT ![r.key] = r.qty]
  ELSE srvCart

\* which badge the continuation of a /cart.js fetch writes
BadgeOf(cont) == IF cont = "fetchCartCount" THEN "bubble" ELSE "hdr"

\* the platform accepts a request and answers it; it refuses a negative quantity
Serve ==
  \E r \in BagToSet(net) :
    /\ r.phase = "sent"
    /\ r.url = "change" => r.qty >= 0
    /\ srvCart' = CartAfter(r)
    /\ net' = (net (-) One(r)) (+)
              One([r EXCEPT !.phase = "served", !.status = "ok", !.cart = CartAfter(r)])
    /\ lastFetched' = IF r.url = "cartjs"
                      THEN [lastFetched EXCEPT ![BadgeOf(r.cont)] = ItemCount(srvCart)]
                      ELSE lastFetched
    /\ UNCHANGED <<timers, ops, cfg, hdrCount, bubble, drawer, dispatched, failures, events>>
    /\ UNCHANGED <<qsVars, flyVars, uiVars>>

\* the responses that can arrive now for a continuation, each with the fetch it
\* settles: an answer of the platform, or a failure of a fetch not yet answered
Responses(cont) ==
  { <<r, r>> : r \in { x \in BagToSet(net) : x.phase = "served" /\ x.cont = cont } }
  \cup
  UNION { { <<r, [r EXCEPT !.status = st]>> : st \in Failures(r.url) } :
            r \in { x \in BagToSet(net) :
                      x.phase = "sent" /\ x.cont = cont /\ failures < MaxFailures } }

FailuresAfter(r) == IF r.status = "ok" THEN failures ELSE failures + 1

InterceptEveryUrl(r) ==
  IF cfg.intercepted /\ r.status # "reject"
  THEN One([kind |-> "fetchCartCount", key |-> "none", live |-> TRUE, op |-> 0])
  ELSE EmptyBag

\* window.fetch as replaced by CartIcon: the timers it sets when a response arrives
Intercept(r) ==
  IF cfg.intercepted /\ r.status # "reject" /\ r.url \in {"add", "change"}
  THEN One([kind |-> "fetchCartCount", key |-> "none", live |-> TRUE, op |-> 0])
  ELSE EmptyBag

(***************************************************************************)
(* FlyToCart (fly-to-cart.js)                                              *)
(***************************************************************************)
\* <fly-to-cart> elements connected per behaviour
MaxFly == 1

\* animations getAnimations() returns for one element
MaxTransitions == 2

Rect(left, top, width, height) ==
  [left |-> left, top |-> top, width |-> width, height |-> height]

\* let sourceRect = null
NoRect == Rect(0, 0, -1, -1)

\* bounding client rects of the source and of the destination; the last one
\* is the rect of an element that is not laid out.  Sizes are even numbers of
\* pixels, so that width / 2 is an integer
Rects == { Rect(0, 0, 40, 40), Rect(300, 10, 20, 20), Rect(0, 0, 0, 0) }

\* `${n}px`
Px(n) == ToText(n) \o <<"p", "x">>

\* the custom properties #animate sets, before it has run
NoStyle == [width |-> <<>>, height |-> <<>>, startX |-> <<>>, startY |-> <<>>,
            travelX |-> <<>>, travelY |-> <<>>]

\* a <fly-to-cart> element as created, with the layout of the elements it
\* points to; op and callsBefore: the addItem invocation that created it and
\* the network calls that invocation had issued by then
NewFly(source, destination, useSourceSize, srcLayout, dstLayout, op, callsBefore) ==
  [source |-> source, destination |-> destination, useSourceSize |-> useSourceSize,
   srcLayout |-> srcLayout, dstLayout |-> dstLayout,
   op |-> op, callsBefore |-> callsBefore,
   connected |-> TRUE, observing |-> FALSE, frame |-> FALSE,
   sourceRect |-> NoRect, destinationRect |-> NoRect, hasAnimated |-> FALSE,
   animates |-> 0, style |-> NoStyle,
   tick |-> "none", detected |-> 0, awaiting |-> 0, cancelled |-> 0]

ConnectedCallbackUnchecked(el) ==
  [el EXCEPT !.observing = TRUE, !.frame = TRUE]

\* connectedCallback
ConnectedCallback(el) ==
  IF ~el.source \/ ~el.destination
  THEN [el EXCEPT !.connected = FALSE]
  ELSE [el EXCEPT !.observing = TRUE, !.frame = TRUE]

\* the centre of a rect
Centre(rect) ==
  [x |-> rect.left + rect.width \div 2, y |-> rect.top + rect.height \div 2]

TravelToCorner(startPoint, endPoint) ==
  [x |-> endPoint.x, y |-> endPoint.y]

\* endPoint - startPoint
Travel(startPoint, endPoint) ==
  [x |-> endPoint.x - startPoint.x, y |-> endPoint.y - startPoint.y]

\* #animate up to its first await
Animate(el, sourceRect, destinationRect) ==
  LET startPoint == Centre(sourceRect)
      endPoint == Centre(destinationRect)
  IN [el EXCEPT
        !.animates = @ + 1,
        !.style = [width |-> IF el.useSourceSize THEN Px(sourceRect.width) ELSE <<>>,
                   height |-> IF el.useSourceSize THEN Px(sourceRect.height) ELSE <<>>,
                   startX |-> Px(startPoint.x),
                   startY |-> Px(startPoint.y),
                   travelX |-> Px(Travel(startPoint, endPoint).x),
                   travelY |-> Px(Travel(startPoint, endPoint).y)],
        !.tick = "pending"]

StartAnimationKeepsObserving(el) ==
  Animate(el, el.sourceRect, el.destinationRect)

\* hasAnimated = true; intersectionObserver.disconnect(); this.#animate(...)
StartAnimation(el) ==
  Animate([el EXCEPT !.hasAnimated = TRUE, !.observing = FALSE],
          el.sourceRect, el.destinationRect)

\* the entries of one observer callback, stored
Observed(el, entries) ==
  [el EXCEPT !.sourceRect = IF "source" \in entries THEN el.srcLayout ELSE @,
             !.destinationRect = IF "destination" \in entries THEN el.dstLayout ELSE @]

\* another script appends a <fly-to-cart> element to the document
FlyConnect ==
  \E source \in BOOLEAN, destination \in BOOLEAN, useSourceSize \in BOOLEAN,
     srcLayout \in Rects, dstLayout \in Rects :
    /\ Len(fly) < MaxFly
    /\ fly' = Append(fly, ConnectedCallback(
                NewFly(source, destination, useSourceSize, srcLayout, dstLayout, 0, 0)))
    /\ UNCHANGED <<qsVars, cartVars, uiVars>>

\* the intersection observer calls back with entries for some of its targets
ObserverCallback(i) ==
  \E entries \in (SUBSET {"source", "destination"}) \ {{}} :
    LET seen == Observed(fly[i], entries) IN
    /\ fly[i].observing
    /\ fly' = [fly EXCEPT ![i] =
                 IF seen.sourceRect # NoRect /\ seen.destinationRect # NoRect
                    /\ ~seen.hasAnimated
                 THEN StartAnimation(seen)
                 ELSE seen]
    /\ UNCHANGED <<qsVars, cartVars, uiVars>>

\* !hasAnimated && this.source && this.destination
FrameChecks(el) == ~el.hasAnimated /\ el.source /\ el.destination

\* both rects have valid dimensions
ValidDimensions(sourceRect, destinationRect) ==
  /\ sourceRect.width > 0 /\ sourceRect.height > 0
  /\ destinationRect.width > 0 /\ destinationRect.height > 0

\* the frame callback of connectedCallback runs
FrameCallback(i) ==
  LET el == [fly[i] EXCEPT !.frame = FALSE]
      seen == [el EXCEPT !.sourceRect = el.srcLayout, !.destinationRect = el.dstLayout]
  IN
  /\ fly[i].frame
  /\ fly' = [fly EXCEPT ![i] =
               IF FrameChecks(el) /\ ValidDimensions(el.srcLayout, el.dstLayout)
               THEN (IF ~seen.hasAnimated THEN StartAnimation(seen) ELSE seen)
               ELSE el]
  /\ UNCHANGED <<qsVars, cartVars, uiVars>>

RemoveWithoutAwaiting(el, n) ==
  [el EXCEPT !.tick = "done", !.detected = n, !.awaiting = n, !.connected = FALSE]

\* #animate after its frame tick: getAnimations() returns n animations,
\* Promise.allSettled awaits them; with none, this.remove() follows at once
AwaitTransitions(el, n) ==
  [el EXCEPT !.tick = "done", !.detected = n, !.awaiting = n, !.connected = n > 0]

\* the frame #animate awaits
AnimateFrame(i) ==
  \E n \in 0..MaxTransitions :
    /\ fly[i].tick = "pending"
    /\ fly' = [fly EXCEPT ![i] = AwaitTransitions(fly[i], n)]
    /\ UNCHANGED <<qsVars, cartVars, uiVars>>

\* an awaited animation finishes or is cancelled; after the last one, this.remove()
TransitionSettle(i) ==
  \E outcome \in {"finished", "cancelled"} :
    /\ fly[i].tick = "done"
    /\ fly[i].awaiting > 0
    /\ fly' = [fly EXCEPT ![i] = [@ EXCEPT
                 !.awaiting = @ - 1,
                 !.cancelled = IF outcome = "cancelled" THEN @ + 1 ELSE @,
                 !.connected = fly[i].awaiting > 1]]
    /\ UNCHANGED <<qsVars, cartVars, uiVars>>

FlyStep ==
  \E i \in DOMAIN fly :
    \/ ObserverCallback(i)
    \/ FrameCallback(i)
    \/ AnimateFrame(i)
    \/ TransitionSettle(i)

NextFly == FlyConnect \/ FlyStep

InitFly ==
  /\ IdleCart
  /\ qsValue = <<"1">>
  /\ qsMin = <<>>
  /\ qsMax = <<>>
  /\ qsChanges = 0
  /\ qsLast = [op |-> "init", from |-> <<>>]

SpecFly == InitFly /\ [][NextFly]_vars

\* frames are delivered and every awaited animation settles
FlyFairness ==
  \A i \in 1..MaxFly :
    /\ WF_vars(i \in DOMAIN fly /\ AnimateFrame(i))
    /\ WF_vars(i \in DOMAIN fly /\ TransitionSettle(i))

SpecFlyFair == SpecFly /\ FlyFairness

(***************************************************************************)
(* CartHandler (global.js)                                                 *)
(***************************************************************************)
VariantIds == {"", "b"}

\* the quantity argument of addItem, parsed
AddQuantities == {0, 2}

VariantNeverMissing(variantId) == FALSE

\* !variantId
VariantMissing(variantId) == variantId = ""

\* addItem: data.status || data.message || !response.ok, or fetch or json threw
AddItemFails(status) == status \in {"errpayload", "notok", "reject"}

\* updateItem: !response.ok, or fetch threw
UpdateItemFails(status) == status \in {"notok", "reject"}

Pending == BagCardinality(net) + BagCardinality(timers)

CanStart == Len(ops) < MaxOps /\ Pending <= MaxPending

NewOp(kind, variantId) ==
  [kind |-> kind, variantId |-> variantId, state |-> "pending", status |-> "none",
   calls |-> 0, onSuccess |-> 0, onError |-> 0, resyncs |-> 0, cartjs |-> 0, anims |-> 0,
   qty |-> 0, markLeft |-> FALSE, sourceElement |-> FALSE, throwing |-> {}]

\* the bounding client rects of the element addItem animates from and of the
\* header's cart button
SourceElementRect == Rect(0, 0, 40, 40)
CartIconRect == Rect(300, 10, 20, 20)

AnimateFlyToCartNever(sourceElement, op, callsBefore) == <<>>

\* animateFlyToCart: the fly-to-cart elements appended to the body, connected
AnimateFlyToCart(sourceElement, op, callsBefore) ==
  IF ~cfg.cartIcon \/ ~sourceElement THEN <<>>
  ELSE << ConnectedCallback(NewFly(sourceElement, cfg.cartIcon, FALSE,
                                   SourceElementRect, CartIconRect, op, callsBefore)) >>

AddItemFetchTwice(op, variantId, quantity) ==
  One(NewReq("add", "addItem", op, variantId, OrElse(quantity, 1))) (+)
  One(NewReq("add", "addItem", op, variantId, OrElse(quantity, 1)))

\* addItem: fetch('/cart/add.js', ...)
AddItemFetch(op, variantId, quantity) ==
  One(NewReq("add", "addItem", op, variantId, OrElse(quantity, 1)))

\* updateItem: fetch('/cart/change.js', ...)
UpdateItemFetch(op, key, quantity) ==
  One(NewReq("change", "updateItem", op, key, quantity))

UpdateCartNoFetch(op) == EmptyBag

\* updateCart up to its await: fetch('/cart.js')
UpdateCart(op) == One(NewReq("cartjs", "updateCart", op, "none", 0))

\* the callbacks a caller of addItem supplies that throw when invoked
Callbacks == {"onSuccess", "onError"}

\* addItem(variantId, quantity, {sourceElement, onSuccess, onError}) up to its
\* first await; throwing is the set of the supplied callbacks that throw
AddItemCall(variantId, quantity, sourceElement, throwing) ==
    LET op == Len(ops) + 1
        called == [NewOp("addItem", variantId) EXCEPT
                     !.sourceElement = sourceElement, !.throwing = throwing]
        created == IF ~VariantMissing(variantId) /\ sourceElement /\ cfg.cartIcon
                   THEN AnimateFlyToCart(sourceElement, op, called.calls)
                   ELSE <<>>
    IN
    /\ CanStart
    /\ Len(fly) + Len(created) <= MaxFly
    /\ IF VariantMissing(variantId)
       THEN /\ ops' = Append(ops, [called EXCEPT
                        !.state = "rejected", !.status = "invalid", !.onError = 1])
            /\ net' = net
            /\ fly' = fly
       ELSE /\ ops' = Append(ops, [called EXCEPT
                        !.anims = Len(created),
                        !.calls = BagCardinality(AddItemFetch(op, variantId, quantity))])
            /\ net' = net (+) AddItemFetch(op, variantId, quantity)
            /\ fly' = fly \o created
    /\ UNCHANGED <<srvCart, timers, lastFetched, cfg, hdrCount, bubble, drawer, dispatched, failures, events>>
    /\ UNCHANGED qsVars

\* addItem is called
AddItem ==
  \E variantId \in VariantIds, quantity \in AddQuantities, sourceElement \in BOOLEAN :
    /\ AddItemCall(variantId, quantity, sourceElement, {})
    /\ UNCHANGED uiVars

\* addItem is called with callbacks that may throw
AddItemWithCallbacks ==
  \E variantId \in VariantIds, throwing \in SUBSET Callbacks :
    /\ AddItemCall(variantId, 1, FALSE, throwing)
    /\ UNCHANGED uiVars

\* addItem from the response of /cart/add.js on
AddItemResponse ==
  \E p \in Responses("addItem") : LET req == p[1]  r == p[2] IN
    /\ IF AddItemFails(r.status)
       THEN /\ ops' = [ops EXCEPT ![r.op] = [@ EXCEPT
                        !.state = "rejected", !.status = r.status, !.onError = @ + 1]]
            /\ net' = net (-) One(req)
       ELSE /\ ops' = [ops EXCEPT ![r.op] = [@ EXCEPT
                        !.state = IF "onSuccess" \in ops[r.op].throwing THEN "rejected" ELSE "resolved",
                        !.status = r.status, !.onSuccess = @ + 1,
                        !.onError = IF "onSuccess" \in ops[r.op].throwing THEN @ + 1 ELSE @,
                        !.resyncs = @ + 1,
                        !.cartjs = @ + BagCardinality(UpdateCart(r.op))]]
            /\ net' = (net (-) One(req)) (+) UpdateCart(r.op)
    /\ timers' = timers (+) Intercept(r)
    /\ UNCHANGED <<srvCart, lastFetched, cfg, hdrCount, bubble, drawer, dispatched, events>>
    /\ failures' = FailuresAfter(r)
    /\ UNCHANGED <<qsVars, flyVars, uiVars>>

UpdateKeys == {"a"}

UpdateQuantities == {0, 2}

\* updateItem up to its first await
UpdateItem ==
  \E key \in UpdateKeys, quantity \in UpdateQuantities :
    LET op == Len(ops) + 1 IN
    /\ CanStart
    /\ ops' = Append(ops, [NewOp("updateItem", key) EXCEPT
                !.calls = BagCardinality(UpdateItemFetch(op, key, quantity))])
    /\ net' = net (+) UpdateItemFetch(op, key, quantity)
    /\ UNCHANGED <<srvCart, timers, lastFetched, cfg, hdrCount, bubble, drawer, dispatched, failures, events>>
    /\ UNCHANGED <<qsVars, flyVars, uiVars>>

\* updateItem from the response of /cart/change.js on
UpdateItemResponse ==
  \E p \in Responses("updateItem") : LET req == p[1]  r == p[2] IN
    /\ IF UpdateItemFails(r.status)
       THEN /\ ops' = [ops EXCEPT ![r.op] = [@ EXCEPT
                        !.state = "rejected", !.status = r.status]]
            /\ net' = net (-) One(req)
       ELSE /\ ops' = [ops EXCEPT ![r.op] = [@ EXCEPT
                        !.state = "resolved", !.status = r.status,
                        !.resyncs = @ + 1,
                        !.cartjs = @ + BagCardinality(UpdateCart(r.op))]]
            /\ net' = (net (-) One(req)) (+) UpdateCart(r.op)
    /\ timers' = timers (+) Intercept(r)
    /\ UNCHANGED <<srvCart, lastFetched, cfg, hdrCount, bubble, drawer, dispatched, events>>
    /\ failures' = FailuresAfter(r)
    /\ UNCHANGED <<qsVars, flyVars, uiVars>>

\* el.textContent = cart.item_count; el.classList.toggle('hidden', cart.item_count === 0)
\* for a /cart.js response whose JSON was read: an error body has no item_count
HdrCountAfter(r) ==
  IF r.status = "ok"
  THEN [text |-> ToText(ItemCount(r.cart)), hidden |-> ItemCount(r.cart) = 0]
  ELSE [text |-> <<"undefined">>, hidden |-> FALSE]

\* updateCart from the response of /cart.js on
UpdateCartResponse ==
  \E p \in Responses("updateCart") : LET req == p[1]  r == p[2] IN
    /\ IF r.status = "reject"
       THEN /\ hdrCount' = hdrCount
            /\ net' = net (-) One(req)
       ELSE /\ hdrCount' = HdrCountAfter(r)
            /\ net' = IF drawer.open
                      THEN (net (-) One(req)) (+)
                           One(NewReq("section", "refreshCartDrawer", r.op, "none", 0))
                      ELSE net (-) One(req)
    /\ timers' = timers (+) Intercept(r)
    /\ UNCHANGED <<srvCart, lastFetched, ops, cfg, bubble, drawer, dispatched, events>>
    /\ failures' = FailuresAfter(r)
    /\ UNCHANGED <<qsVars, flyVars, uiVars>>

\* a pending continuation whose item node has left the document
OffNode(r, all, key) ==
  IF all \/ r.key = key THEN [r EXCEPT !.live = FALSE] ELSE r

\* the pending continuations after item nodes left the document: all of them,
\* or the one of a line
DetachNodes(bag, all, key) ==
  LET rs == BagToSet(bag)
      img == { OffNode(r, all, key) : r \in rs }
  IN [x \in img |->
        LET pre == { r \in rs : OffNode(r, all, key) = x }
        IN SumOver([r \in pre |-> bag[r]], pre)]

\* an innerHTML assignment replaces the item nodes: pending continuations keep
\* nodes that are no longer in the document
Detach(bag) ==
  DetachNodes(bag, TRUE, "none")

\* item.remove() takes one item node out of the document
DetachKey(bag, key) ==
  DetachNodes(bag, FALSE, key)

\* refreshCartDrawer from the response of /?section_id=cart-drawer on
RefreshCartDrawerResponse ==
  \E p \in Responses("refreshCartDrawer") : LET req == p[1]  r == p[2] IN
    /\ IF r.status = "ok"
       THEN /\ drawer' = [drawer EXCEPT !.items = RenderItems(r.cart)]
            /\ net' = Detach(net (-) One(req))
            /\ timers' = Detach(timers (+) Intercept(r))
       ELSE /\ drawer' = drawer
            /\ net' = net (-) One(req)
            /\ timers' = timers (+) Intercept(r)
    /\ UNCHANGED <<srvCart, lastFetched, ops, cfg, hdrCount, bubble, dispatched, events>>
    /\ failures' = FailuresAfter(r)
    /\ UNCHANGED <<qsVars, flyVars, uiVars>>

(***************************************************************************)
(* CartIcon (slideshow-with-text.js)                                       *)
(***************************************************************************)
\* get currentCartCount
CurrentCartCount(b) == ParseInt(b.text)

\* set currentCartCount
CountText(value) == IF JsLt(value, 100) THEN ToText(value) ELSE <<>>

RenderCartBubbleAlwaysReplaces(b, itemCount, comingFromProductForm, animate) ==
  [text |-> CountText(itemCount),
   hidden |-> itemCount = 0,
   hasCart |-> JsGt(ParseInt(CountText(itemCount)), 0),
   stored |-> ToText(ParseInt(CountText(itemCount))),
   age |-> 0,
   animates |-> animate /\ itemCount # 0,
   renders |-> IF b.renders < MaxEvents THEN b.renders + 1 ELSE b.renders]

\* renderCartBubble up to its first await; animates: it goes on to animate
RenderCartBubble(b, itemCount, comingFromProductForm, animate) ==
  LET text == CountText(IF comingFromProductForm
                        THEN JsAdd(CurrentCartCount(b), itemCount)
                        ELSE itemCount)
  IN [text |-> text,
      hidden |-> itemCount = 0,
      hasCart |-> JsGt(ParseInt(text), 0),
      stored |-> ToText(ParseInt(text)),
      age |-> 0,
      animates |-> animate /\ itemCount # 0,
      renders |-> IF b.renders < MaxEvents THEN b.renders + 1 ELSE b.renders]

\* the 150 ms timer of the fetch wrapper fires: #fetchCartCount up to its await
FetchCartCount ==
  \E t \in BagToSet(timers) :
    /\ t.kind = "fetchCartCount"
    /\ timers' = timers (-) One(t)
    /\ net' = net (+) One(NewReq("cartjs", "fetchCartCount", 0, "none", 0))
    /\ UNCHANGED <<srvCart, lastFetched, ops, cfg, hdrCount, bubble, drawer, dispatched, failures, events>>
    /\ UNCHANGED <<qsVars, flyVars, uiVars>>

\* this.renderCartBubble(itemCount, false, true) of the instance the wrapper
\* captured: it renders its own bubble; once it has been disconnected its
\* refs, which the Component base class manages, may be gone
RenderedBySelf(itemCount) ==
  IF cfg.self \in cfg.icons
  THEN { RenderCartBubble(bubble, itemCount, FALSE, TRUE) }
  ELSE { RenderCartBubble(bubble, itemCount, FALSE, TRUE), bubble }

\* #fetchCartCount from the response of /cart.js on
FetchCartCountResponse ==
  \E p \in Responses("fetchCartCount") : LET req == p[1]  r == p[2] IN
    /\ net' = net (-) One(req)
    /\ timers' = timers (+) Intercept(r)
    /\ bubble' \in IF r.status = "ok"
                   THEN RenderedBySelf(OrElse(ItemCount(r.cart), 0))
                   ELSE {bubble}
    /\ UNCHANGED <<srvCart, lastFetched, ops, cfg, hdrCount, drawer, dispatched, events>>
    /\ failures' = FailuresAfter(r)
    /\ UNCHANGED <<qsVars, flyVars, uiVars>>

NextClient ==
  \/ AddItem
  \/ AddItemResponse
  \/ UpdateItem
  \/ UpdateItemResponse
  \/ UpdateCartResponse
  \/ RefreshCartDrawerResponse
  \/ FetchCartCount
  \/ FetchCartCountResponse
  \/ Serve

InitClient ==
  /\ InitCart
  /\ qsValue = <<"1">>
  /\ qsMin = <<>>
  /\ qsMax = <<>>
  /\ qsChanges = 0
  /\ qsLast = [op |-> "init", from |-> <<>>]

SpecClient == InitClient /\ [][NextClient]_vars

\* addItem called with callbacks that may throw
NextCallbacks ==
  \/ AddItemWithCallbacks
  \/ AddItemResponse
  \/ UpdateCartResponse
  \/ RefreshCartDrawerResponse
  \/ FetchCartCount
  \/ FetchCartCountResponse
  \/ Serve

SpecCallbacks == InitClient /\ [][NextCallbacks]_vars

\* addItem on a page with the cart button, together with the animations it starts
NextAnim ==
  \/ AddItem
  \/ AddItemResponse
  \/ UpdateCartResponse
  \/ RefreshCartDrawerResponse
  \/ FetchCartCount
  \/ FetchCartCountResponse
  \/ Serve
  \/ FlyStep

InitAnim ==
  /\ InitClient
  /\ cfg.cartIcon

SpecAnim == InitAnim /\ [][NextAnim]_vars

Quiescent == net = EmptyBag /\ timers = EmptyBag

(***************************************************************************)
(* CartDrawer (slideshow-with-text.js)                                     *)
(***************************************************************************)
\* texts a user can type into a quantity input of the drawer
DrawerInputs == { <<>>, <<"2">>, <<"-", "3">> }

\* refresh up to its first await: fetch(window.location.pathname)
Refresh == One(NewReq("page", "refresh", 0, "none", 0))

\* updateCartData up to its await: fetch('/cart.js'); then: what runs after it
UpdateCartData(then) == One(NewReq("cartjs", then, 0, "none", 0))

\* document.dispatchEvent(new CustomEvent('cart:update')): the fetches the
\* listeners start.  CartDrawer's listener refreshes (the event has no detail,
\* so it does not open); CartIcon.onCartUpdate finds no itemCount and fetches
CartUpdate ==
  Refresh (+)
  (IF cfg.intercepted
   THEN One(NewReq("cartjs", "fetchCartCount", 0, "none", 0))
   ELSE EmptyBag)

\* Math.max(0, currentValue + delta)
Clamp(n) == IF n < 0 THEN 0 ELSE n

\* the quantity setQuantity reads from the input
InputQuantity(value) == OrElse(ParseInt(value), 0)

\* setQuantity(input) up to its await, for the input of line key holding value
SetQuantityStart(key, value) ==
  LET quantity == InputQuantity(value)
      op == Len(ops) + 1
  IN /\ drawer' = [drawer EXCEPT
                     !.items[key].value = value,
                     !.items[key].removing = IF quantity = 0 THEN TRUE ELSE @]
     /\ net' = net (+) One(NewReq("change", "setQuantity", op, key, quantity))
     /\ ops' = Append(ops, [NewOp("setQuantity", key) EXCEPT !.calls = 1, !.qty = quantity])
     /\ UNCHANGED <<srvCart, timers, lastFetched, cfg, hdrCount, bubble, dispatched, failures, events>>
     /\ UNCHANGED <<qsVars, flyVars, uiVars>>

Bound(key) == drawer.open /\ drawer.items[key].present /\ drawer.items[key].bound

\* click on the minus or plus button of a line: updateQuantity(input, delta)
UpdateQuantity ==
  \E key \in Lines, delta \in {-1, 1} :
    /\ CanStart
    /\ Bound(key)
    /\ LET currentValue == OrElse(ParseInt(drawer.items[key].value), 0)
           newValue == Clamp(currentValue + delta)
       IN SetQuantityStart(key, ToText(newValue))

\* the user types a text into the input of a line and commits it
SetQuantity ==
  \E key \in Lines, raw \in DrawerInputs :
    /\ CanStart
    /\ Bound(key)
    /\ SetQuantityStart(key, raw)

\* the removing mark of the node a continuation holds, after classList.remove
Unmark(items, r) ==
  IF r.live THEN [items EXCEPT ![r.key].removing = FALSE] ELSE items

\* setQuantity from the response of /cart/change.js on
SetQuantityResponse ==
  \E p \in Responses("setQuantity") : LET req == p[1]  r == p[2] IN
    /\ IF r.status = "reject"
       THEN /\ drawer' = [drawer EXCEPT !.items = Unmark(drawer.items, r)]
            /\ net' = net (-) One(req)
            /\ dispatched' = dispatched
       ELSE IF r.status = "notok"
       THEN /\ drawer' = drawer
            /\ net' = net (-) One(req)
            /\ dispatched' = dispatched
       ELSE /\ drawer' = drawer
            /\ net' = (net (-) One(req)) (+) Refresh (+) CartUpdate
            /\ dispatched' = dispatched + 1
    /\ ops' = [ops EXCEPT ![r.op] = [@ EXCEPT
                 !.state = "settled", !.status = r.status,
                 !.markLeft = r.live /\ drawer'.items[r.key].removing]]
    /\ timers' = timers (+) Intercept(r)
    /\ UNCHANGED <<srvCart, lastFetched, cfg, hdrCount, bubble, events>>
    /\ failures' = FailuresAfter(r)
    /\ UNCHANGED <<qsVars, flyVars, uiVars>>

\* click on the remove button of a line: removeItem up to its first await
RemoveItem ==
  \E key \in Lines :
    /\ CanStart
    /\ Bound(key)
    /\ drawer' = [drawer EXCEPT !.items[key].removing = TRUE]
    /\ net' = net (+) One(NewReq("change", "removeItem", Len(ops) + 1, key, 0))
    /\ ops' = Append(ops, [NewOp("removeItem", key) EXCEPT !.calls = 1])
    /\ UNCHANGED <<srvCart, timers, lastFetched, cfg, hdrCount, bubble, dispatched, failures, events>>
    /\ UNCHANGED <<qsVars, flyVars, uiVars>>

\* removeItem from the response of /cart/change.js to its second await
RemoveItemResponse ==
  \E p \in Responses("removeItem") : LET req == p[1]  r == p[2] IN
    /\ net' = net (-) One(req)
    /\ IF r.status \in {"reject", "notok"}
       THEN /\ drawer' = [drawer EXCEPT !.items = Unmark(drawer.items, r)]
            /\ timers' = timers (+) Intercept(r)
            /\ ops' = [ops EXCEPT ![r.op] = [@ EXCEPT
                         !.state = "settled", !.status = r.status,
                         !.markLeft = r.live /\ drawer'.items[r.key].removing]]
       ELSE /\ drawer' = drawer
            /\ timers' = timers (+) Intercept(r) (+)
                         One([kind |-> "removal", key |-> r.key, live |-> r.live,
                              op |-> r.op])
            /\ ops' = [ops EXCEPT ![r.op] = [@ EXCEPT !.status = r.status]]
    /\ UNCHANGED <<srvCart, lastFetched, cfg, hdrCount, bubble, dispatched, events>>
    /\ failures' = FailuresAfter(r)
    /\ UNCHANGED <<qsVars, flyVars, uiVars>>

\* the item list after item.remove()
RemoveNode(items, t) ==
  IF t.live
  THEN [items EXCEPT ![t.key] =
          [present |-> FALSE, removing |-> FALSE, bound |-> FALSE, value |-> <<>>]]
  ELSE items

\* removeItem after the 400 ms of the removal transition, to its third await
RemoveItemTransitionEnd ==
  \E t \in BagToSet(timers) :
    /\ t.kind = "removal"
    /\ drawer' = [drawer EXCEPT !.items = RemoveNode(drawer.items, t)]
    /\ timers' = IF t.live THEN DetachKey(timers (-) One(t), t.key) ELSE timers (-) One(t)
    /\ net' = (IF t.live THEN DetachKey(net, t.key) ELSE net) (+)
              One(NewReq("cartjs", "removeItemData", t.op, t.key, 0))
    /\ UNCHANGED <<srvCart, lastFetched, ops, cfg, hdrCount, bubble, dispatched, failures, events>>
    /\ UNCHANGED <<qsVars, flyVars, uiVars>>

\* the count in the drawer's header as updateCartData writes it
DrawerCountAfter(r) ==
  IF r.status = "ok" /\ ItemCount(r.cart) > 0
  THEN <<"(">> \o ToText(ItemCount(r.cart)) \o <<")">>
  ELSE <<>>

\* removeItem from the response of updateCartData's /cart.js on
RemoveItemDataResponse ==
  \E p \in Responses("removeItemData") : LET req == p[1]  r == p[2] IN
    /\ IF r.status = "reject"
       THEN /\ drawer' = drawer
            /\ hdrCount' = hdrCount
       ELSE /\ drawer' = [drawer EXCEPT !.count = DrawerCountAfter(r)]
            /\ hdrCount' = HdrCountAfter(r)
    /\ net' = (net (-) One(req)) (+) CartUpdate
    /\ dispatched' = dispatched + 1
    /\ ops' = [ops EXCEPT ![r.op] = [@ EXCEPT !.state = "settled"]]
    /\ timers' = timers (+) Intercept(r)
    /\ UNCHANGED <<srvCart, lastFetched, cfg, bubble, events>>
    /\ failures' = FailuresAfter(r)
    /\ UNCHANGED <<qsVars, flyVars, uiVars>>

SpliceWithoutFooter(d, r) ==
  IF r.status = "notok" THEN d
  ELSE [d EXCEPT !.items = RenderItems(r.cart), !.count = RenderDrawerCount(r.cart)]

\* refresh between its two awaits: the regions of the fetched page's
\* #cart-drawer are spliced into the live drawer d.  A response that is not ok
\* is a page without #cart-drawer
Splice(d, r) ==
  IF r.status = "notok" THEN [d EXCEPT !.footer = FALSE]
  ELSE [d EXCEPT !.items = RenderItems(r.cart),
                 !.footer = ItemCount(r.cart) > 0,
                 !.count = RenderDrawerCount(r.cart)]

\* refresh from the response of the page fetch to its second await
RefreshResponse ==
  \E p \in Responses("refresh") : LET req == p[1]  r == p[2] IN
    /\ IF r.status = "reject"
       THEN /\ drawer' = drawer
            /\ net' = (net (-) One(req)) (+) UpdateCartData("updateCartData")
            /\ timers' = timers (+) Intercept(r)
       ELSE IF r.status = "notok"
       THEN /\ drawer' = Splice(drawer, r)
            /\ net' = (net (-) One(req)) (+) One(NewReq("cartjs", "refreshCart", 0, "none", 0))
            /\ timers' = timers (+) Intercept(r)
       ELSE /\ drawer' = Splice(drawer, r)
            /\ net' = Detach(net (-) One(req)) (+)
                      One(NewReq("cartjs", "refreshCart", 0, "none", 0))
            /\ timers' = Detach(timers (+) Intercept(r))
    /\ UNCHANGED <<srvCart, lastFetched, ops, cfg, hdrCount, bubble, dispatched, events>>
    /\ failures' = FailuresAfter(r)
    /\ UNCHANGED <<qsVars, flyVars, uiVars>>

\* refresh from the response of its /cart.js fetch on
RefreshCartResponse ==
  \E p \in Responses("refreshCart") : LET req == p[1]  r == p[2] IN
    /\ IF r.status = "reject"
       THEN /\ drawer' = drawer
            /\ hdrCount' = hdrCount
            /\ net' = (net (-) One(req)) (+) UpdateCartData("updateCartData")
       ELSE /\ drawer' = [drawer EXCEPT !.items = BindEvents(drawer.items)]
            /\ hdrCount' = HdrCountAfter(r)
            /\ net' = net (-) One(req)
    /\ timers' = timers (+) Intercept(r)
    /\ UNCHANGED <<srvCart, lastFetched, ops, cfg, bubble, dispatched, events>>
    /\ failures' = FailuresAfter(r)
    /\ UNCHANGED <<qsVars, flyVars, uiVars>>

\* updateCartData, called as refresh's fallback, from the response of /cart.js on
UpdateCartDataResponse ==
  \E p \in Responses("updateCartData") : LET req == p[1]  r == p[2] IN
    /\ IF r.status = "reject"
       THEN /\ drawer' = drawer
            /\ hdrCount' = hdrCount
       ELSE /\ drawer' = [drawer EXCEPT !.count = DrawerCountAfter(r)]
            /\ hdrCount' = HdrCountAfter(r)
    /\ net' = net (-) One(req)
    /\ timers' = timers (+) Intercept(r)
    /\ UNCHANGED <<srvCart, lastFetched, ops, cfg, bubble, dispatched, events>>
    /\ failures' = FailuresAfter(r)
    /\ UNCHANGED <<qsVars, flyVars, uiVars>>

NextDrawer ==
  \/ UpdateQuantity
  \/ SetQuantity
  \/ SetQuantityResponse
  \/ RemoveItem
  \/ RemoveItemResponse
  \/ RemoveItemTransitionEnd
  \/ RemoveItemDataResponse
  \/ RefreshResponse
  \/ RefreshCartResponse
  \/ UpdateCartDataResponse
  \/ Serve

\* the shopper works in the open drawer, on a page without the cart icon
InitDrawer ==
  /\ InitClient
  /\ drawer.open
  /\ ~cfg.intercepted

SpecDrawer == InitDrawer /\ [][NextDrawer]_vars


(***************************************************************************)
(* cart:update notifications of other components                           *)
(***************************************************************************)
\* itemCount values a notification carries
NotifCounts == {0, 2, 98, 100}

Sources == {"product-form-component", "other"}

\* CartIcon.onCartUpdate: the bubble after it, and the fetches it starts
OnCartUpdateBubble(itemCount, source) ==
  IF itemCount = Undefined THEN bubble
  ELSE RenderCartBubble(bubble, itemCount, source = "product-form-component", TRUE)

OnCartUpdateFetchNever(itemCount) == EmptyBag

OnCartUpdateFetch(itemCount) ==
  IF itemCount = Undefined
  THEN One(NewReq("cartjs", "fetchCartCount", 0, "none", 0))
  ELSE EmptyBag

\* positions the user scrolls the page to
ScrollPositions == {0, 100, 250}

\* the body scrolls with the user unless a scroll lock is on it
ScrollLocked == doc.overflowHidden \/ doc.position = <<"fixed">>

\* open(): the drawer and the body after it
Open(d, b) ==
  [drawer |-> [d EXCEPT !.open = TRUE,
                        !.openedAt = IF d.open THEN @ ELSE b.scrollY],
   doc |-> [b EXCEPT !.overflowHidden = TRUE]]

CloseKeepsLock(d, b) ==
  [drawer |-> [d EXCEPT !.open = FALSE], doc |-> b]

\* close(): the drawer and the body after it
Close(d, b) ==
  [drawer |-> [d EXCEPT !.open = FALSE],
   doc |-> [b EXCEPT !.overflowHidden = FALSE]]

OpensDrawerDespiteError(source, didError) == source = "product-form-component"

\* CartDrawer's cart:update listener: whether it calls open()
OpensDrawer(source, didError) == source = "product-form-component" /\ ~didError

\* another component dispatches cart:update on the document; the listeners of
\* CartIcon and of CartDrawer run
CartUpdateEvent ==
  \E itemCount \in NotifCounts \cup {Undefined}, source \in Sources, didError \in BOOLEAN :
    /\ events.seq < MaxEvents
    /\ Pending <= MaxPending
    /\ events' = [seq |-> events.seq + 1, itemCount |-> itemCount, source |-> source,
                  didError |-> didError, before |-> bubble.text]
    /\ bubble' = IF cfg.intercepted THEN OnCartUpdateBubble(itemCount, source) ELSE bubble
    /\ net' = net (+) Refresh (+)
              (IF cfg.intercepted THEN OnCartUpdateFetch(itemCount) ELSE EmptyBag)
    /\ drawer' = IF OpensDrawer(source, didError) THEN Open(drawer, doc).drawer
                 ELSE drawer
    /\ doc' = IF OpensDrawer(source, didError) THEN Open(drawer, doc).doc ELSE doc
    /\ UNCHANGED <<srvCart, timers, lastFetched, ops, cfg, hdrCount, dispatched, failures>>
    /\ UNCHANGED <<qsVars, flyVars, showVars, dialog, card>>

\* open() is called
DrawerOpen ==
  /\ drawer' = Open(drawer, doc).drawer
  /\ doc' = Open(drawer, doc).doc
  /\ UNCHANGED <<srvCart, net, timers, lastFetched, ops, cfg, hdrCount, bubble,
                 dispatched, failures, events>>
  /\ UNCHANGED <<qsVars, flyVars, showVars, dialog, card>>

\* close() is called, or the overlay or a close button is clicked
DrawerClose ==
  /\ drawer' = Close(drawer, doc).drawer
  /\ doc' = Close(drawer, doc).doc
  /\ UNCHANGED <<srvCart, net, timers, lastFetched, ops, cfg, hdrCount, bubble,
                 dispatched, failures, events>>
  /\ UNCHANGED <<qsVars, flyVars, showVars, dialog, card>>

\* keydown of Escape on the document
DrawerEscape ==
  /\ drawer' = IF drawer.open THEN Close(drawer, doc).drawer ELSE drawer
  /\ doc' = IF drawer.open THEN Close(drawer, doc).doc ELSE doc
  /\ UNCHANGED <<srvCart, net, timers, lastFetched, ops, cfg, hdrCount, bubble,
                 dispatched, failures, events>>
  /\ UNCHANGED <<qsVars, flyVars, showVars, dialog, card>>

\* the user scrolls the page
Scroll ==
  \E y \in ScrollPositions :
    /\ ~ScrollLocked
    /\ dialog.frames = <<>>
    /\ doc' = [doc EXCEPT !.scrollY = y]
    /\ UNCHANGED <<qsVars, cartVars, flyVars, showVars, dialog, card>>

NextBadge ==
  \/ CartUpdateEvent
  \/ FetchCartCountResponse
  \/ RefreshResponse
  \/ RefreshCartResponse
  \/ UpdateCartDataResponse
  \/ Serve

\* a page with the cart icon and the drawer
InitBadge ==
  /\ InitClient
  /\ cfg.intercepted

SpecBadge == InitBadge /\ [][NextBadge]_vars

\* the drawer is opened and closed while notifications arrive, on a page
\* without the cart icon
NextOpenClose ==
  \/ DrawerOpen
  \/ DrawerClose
  \/ DrawerEscape
  \/ Scroll
  \/ CartUpdateEvent
  \/ RefreshResponse
  \/ RefreshCartResponse
  \/ UpdateCartDataResponse
  \/ Serve

InitOpenClose ==
  /\ InitClient
  /\ ~drawer.open
  /\ ~cfg.intercepted

SpecOpenClose == InitOpenClose /\ [][NextOpenClose]_vars

\* the product form dispatches cart:update without an item count
ProductFormUpdate ==
  /\ CartUpdateEvent
  /\ events'.source = "product-form-component"
  /\ events'.itemCount = Undefined

\* a page rendered for an empty cart: products are added, the product form
\* notifies and the shopper changes quantities in the drawer
NextRefresh ==
  \/ AddItem
  \/ AddItemResponse
  \/ UpdateCartResponse
  \/ RefreshCartDrawerResponse
  \/ ProductFormUpdate
  \/ SetQuantity
  \/ SetQuantityResponse
  \/ RefreshResponse
  \/ RefreshCartResponse
  \/ UpdateCartDataResponse
  \/ Serve

InitRefresh ==
  /\ IdleCart
  /\ qsValue = <<"1">>
  /\ qsMin = <<>>
  /\ qsMax = <<>>
  /\ qsChanges = 0
  /\ qsLast = [op |-> "init", from |-> <<>>]

SpecRefresh == InitRefresh /\ [][NextRefresh]_vars


(***************************************************************************)
(* DialogComponent (dialog.js)                                             *)
(***************************************************************************)
\* showDialog calls between two animation frames
MaxFrames == 2

\* closeDialog calls awaiting one exit animation
MaxClosing == 2

RECURSIVE AllDigits(_)
AllDigits(s) == s = <<>> \/ (IsDigit(Head(s)) /\ AllDigits(Tail(s)))

\* Number(getAttribute(...)): 0 for a missing or empty attribute
Number(s) ==
  IF s = NoAttr \/ s = <<>> THEN 0
  ELSE IF AllDigits(s) THEN ParseInt(s)
  ELSE NaN

\* a number in a condition
Truthy(n) == n # 0 /\ n # NaN

\* values of dialog-active-min-width and dialog-active-max-width
MinWidthAttrs == { NoAttr, <<"5", "0", "0">> }
MaxWidthAttrs == { NoAttr, <<"9", "0", "0">> }

\* widths the window is resized to
InnerWidths == {400, 700, 1000}

ShowDialogAlways(d, scrollY) ==
  [d EXCEPT !.previousScrollY = scrollY, !.frames = Append(@, scrollY)]

\* showDialog up to requestAnimationFrame
ShowDialogCall(d, scrollY) ==
  IF d.open THEN d
  ELSE [d EXCEPT !.previousScrollY = scrollY, !.frames = Append(@, scrollY)]

\* the animation-frame callback of a showDialog call that read scrollY; a body
\* with position fixed is not scrolled, and showModal leaves a modal that is
\* shown as it is
ShowFrame(st, scrollY) ==
  [doc |-> [st.doc EXCEPT !.width = <<"1", "0", "0", "%">>,
                          !.position = <<"fixed">>,
                          !.top = <<"-">> \o Px(scrollY),
                          !.scrollY = 0],
   dialog |-> [st.dialog EXCEPT !.open = TRUE,
                                !.handlers = TRUE,
                                !.openedFrom = IF st.dialog.open THEN @ ELSE scrollY,
                                !.showModals = @ + 1,
                                !.lastEvent = "dialog:open",
                                !.repeated = @ \/ st.dialog.lastEvent = "dialog:open"]]

RECURSIVE RunFrames(_, _)
RunFrames(st, frames) ==
  IF frames = <<>> THEN st
  ELSE RunFrames(ShowFrame(st, Head(frames)), Tail(frames))

\* closeDialog up to its await
CloseDialogCall(d) ==
  IF ~d.open THEN d
  ELSE [d EXCEPT !.handlers = FALSE, !.closing = TRUE, !.closes = @ + 1]

\* closeDialog after its await, for every call that awaits the animation:
\* each of them dispatches dialog:close
CloseComplete(st) ==
  [doc |-> [st.doc EXCEPT !.width = <<>>, !.position = <<>>, !.top = <<>>,
                          !.scrollY = st.dialog.previousScrollY],
   dialog |-> [st.dialog EXCEPT !.open = FALSE, !.closing = FALSE, !.closes = 0,
                                !.showModals = 0,
                                !.lastEvent = "dialog:close",
                                !.repeated = @ \/ st.dialog.lastEvent # "dialog:open"
                                               \/ st.dialog.closes > 1]]

\* showDialog is called
ShowDialog ==
  /\ Len(dialog.frames) < MaxFrames
  /\ dialog' = ShowDialogCall(dialog, doc.scrollY)
  /\ UNCHANGED <<qsVars, cartVars, flyVars, showVars, doc, card>>

\* closeDialog is called
CloseDialog ==
  /\ dialog.closes < MaxClosing
  /\ dialog' = CloseDialogCall(dialog)
  /\ UNCHANGED <<qsVars, cartVars, flyVars, showVars, doc, card>>

\* toggleDialog is called
ToggleDialog ==
  /\ Len(dialog.frames) < MaxFrames
  /\ dialog.closes < MaxClosing
  /\ dialog' = IF dialog.open THEN CloseDialogCall(dialog)
                ELSE ShowDialogCall(dialog, doc.scrollY)
  /\ UNCHANGED <<qsVars, cartVars, flyVars, showVars, doc, card>>

\* an animation frame: the pending callbacks of showDialog run, in order
Frame ==
  /\ dialog.frames # <<>>
  /\ LET st == RunFrames([doc |-> doc, dialog |-> [dialog EXCEPT !.frames = <<>>]],
                         dialog.frames)
     IN /\ doc' = st.doc
        /\ dialog' = st.dialog
  /\ UNCHANGED <<qsVars, cartVars, flyVars, showVars, card>>

\* the exit animation of the <dialog> ends: the closeDialog calls awaiting it
\* continue
AnimationEnd ==
  /\ dialog.closes > 0
  /\ doc' = CloseComplete([doc |-> doc, dialog |-> dialog]).doc
  /\ dialog' = CloseComplete([doc |-> doc, dialog |-> dialog]).dialog
  /\ UNCHANGED <<qsVars, cartVars, flyVars, showVars, card>>

\* the window is resized: the debounced #handleResize is armed again
Resize ==
  \E w \in InnerWidths :
    /\ doc' = [doc EXCEPT !.innerWidth = w]
    /\ dialog' = [dialog EXCEPT !.resize = @ \/ dialog.listening]
    /\ UNCHANGED <<qsVars, cartVars, flyVars, showVars, card>>

\* #handleResize, 50 ms after the last resize event
HandleResize ==
  LET minWidth == Number(dialog.minWidth)
      maxWidth == Number(dialog.maxWidth)
      windowWidth == doc.innerWidth
      d == [dialog EXCEPT !.resize = FALSE]
  IN /\ dialog.resize
     /\ dialog.closes < MaxClosing
     /\ dialog' = IF ~Truthy(minWidth) /\ ~Truthy(maxWidth) THEN d
                   ELSE IF JsLt(windowWidth, minWidth) \/ JsGt(windowWidth, maxWidth)
                   THEN CloseDialogCall(d)
                   ELSE d
     /\ UNCHANGED <<qsVars, cartVars, flyVars, showVars, doc, card>>

NextDialog ==
  \/ ShowDialog
  \/ CloseDialog
  \/ ToggleDialog
  \/ Frame
  \/ AnimationEnd
  \/ Scroll
  \/ Resize
  \/ HandleResize

\* connectedCallback: #handleResize listens iff a width is configured
InitDialogPage ==
  /\ IdleShop
  /\ qsValue = <<"1">>
  /\ qsMin = <<>>
  /\ qsMax = <<>>
  /\ qsChanges = 0
  /\ qsLast = [op |-> "init", from |-> <<>>]
  /\ doc = InitDoc
  /\ card = InitCard
  /\ hero = InitHero
  /\ section = InitSection
  /\ \E a \in MinWidthAttrs, b \in MaxWidthAttrs :
       dialog = [InitDialog EXCEPT
                   !.minWidth = a, !.maxWidth = b,
                   !.listening = Truthy(Number(a)) \/ Truthy(Number(b))]

SpecDialog == InitDialogPage /\ [][NextDialog]_vars


(***************************************************************************)
(* ProductCardAddToCart (product-card.js)                                  *)
(***************************************************************************)
\* setButtonState: data-state, disabled and aria-busy of the button
SetButtonState(c, state) ==
  [c EXCEPT !.state = state, !.disabled = (state = "adding"), !.busy = (state = "adding")]

\* addToCart after its await, for invocation i: the success state, the
\* product-card:added event and the reset timer
AddToCartSucceeds(c, i) ==
  [SetButtonState(c, "added") EXCEPT
     !.awaiting = @ \ {i}, !.succeeded = @ \cup {i}, !.added = @ + 1, !.resets = @ + 1]

\* addToCart's catch block, for invocation i
AddToCartCatches(c, i) ==
  [SetButtonState(c, "default") EXCEPT !.awaiting = @ \ {i}, !.reverted = @ \cup {i}]

\* a click on the button: handleClick, and addToCart up to its await
CardClick ==
  LET op == Len(ops) + 1
      adding == SetButtonState(card, "adding")
  IN
  /\ ~card.disabled
  /\ CanStart
  /\ IF card.cart
     THEN /\ AddItemCall(card.variantId, 1, TRUE, {})
          /\ card' = [adding EXCEPT !.awaiting = @ \cup {op}]
     ELSE /\ ops' = Append(ops, [NewOp("addWithFetch", card.variantId) EXCEPT !.calls = 1])
          /\ net' = net (+) One(NewReq("add", "addWithFetch", op, card.variantId, 1))
          /\ card' = adding
          /\ UNCHANGED <<srvCart, timers, lastFetched, cfg, hdrCount, bubble, drawer,
                         dispatched, failures, events>>
          /\ UNCHANGED <<qsVars, flyVars>>
  /\ UNCHANGED <<doc, dialog, showVars>>

\* addToCart after await addWithGlobalCart: addItem has called onSuccess or onError
AddToCartSettled ==
  \E i \in card.awaiting :
    /\ ops[i].onSuccess + ops[i].onError > 0
    /\ card' = IF ops[i].onSuccess > 0 THEN AddToCartSucceeds(card, i)
               ELSE AddToCartCatches(card, i)
    /\ UNCHANGED <<qsVars, cartVars, flyVars, showVars, doc, dialog>>

\* addWithFetch from the response of /cart/add.js to the await in updateCartCount
AddWithFetchResponse ==
  \E p \in Responses("addWithFetch") : LET req == p[1]  r == p[2] IN
    /\ IF r.status \in {"reject", "notok"}
       THEN /\ net' = net (-) One(req)
            /\ card' = AddToCartCatches(card, r.op)
            /\ ops' = [ops EXCEPT ![r.op] = [@ EXCEPT !.state = "rejected", !.status = r.status]]
       ELSE /\ net' = (net (-) One(req)) (+) One(NewReq("cartjs", "updateCartCount", r.op, "none", 0))
            /\ card' = card
            /\ ops' = [ops EXCEPT ![r.op] = [@ EXCEPT !.status = r.status, !.cartjs = @ + 1]]
    /\ timers' = timers (+) Intercept(r)
    /\ failures' = FailuresAfter(r)
    /\ UNCHANGED <<srvCart, lastFetched, cfg, hdrCount, bubble, drawer, dispatched, events>>
    /\ UNCHANGED <<qsVars, flyVars, showVars, doc, dialog>>

\* updateCartCount from the response of /cart.js on, then the rest of
\* addWithFetch and of addToCart
UpdateCartCountResponse ==
  \E p \in Responses("updateCartCount") : LET req == p[1]  r == p[2] IN
    /\ net' = net (-) One(req)
    /\ hdrCount' = IF r.status = "reject" THEN hdrCount ELSE HdrCountAfter(r)
    /\ card' = AddToCartSucceeds(card, r.op)
    /\ ops' = [ops EXCEPT ![r.op] = [@ EXCEPT !.state = "resolved"]]
    /\ timers' = timers (+) Intercept(r)
    /\ failures' = FailuresAfter(r)
    /\ UNCHANGED <<srvCart, lastFetched, cfg, bubble, drawer, dispatched, events>>
    /\ UNCHANGED <<qsVars, flyVars, showVars, doc, dialog>>

\* the timer addToCart sets after a success fires, 2000 ms later
CardReset ==
  /\ card.resets > 0
  /\ card' = [SetButtonState(card, "default") EXCEPT !.resets = @ - 1]
  /\ UNCHANGED <<qsVars, cartVars, flyVars, showVars, doc, dialog>>

NextCard ==
  \/ CardClick
  \/ AddToCartSettled
  \/ AddWithFetchResponse
  \/ UpdateCartCountResponse
  \/ CardReset
  \/ AddItemResponse
  \/ UpdateCartResponse
  \/ Serve

\* a page with a product card, with or without the global cart handler
InitCardPage ==
  /\ IdleShop
  /\ qsValue = <<"1">>
  /\ qsMin = <<>>
  /\ qsMax = <<>>
  /\ qsChanges = 0
  /\ qsLast = [op |-> "init", from |-> <<>>]
  /\ doc = InitDoc
  /\ dialog = InitDialog
  /\ card \in { [InitCard EXCEPT !.cart = b] : b \in BOOLEAN }
  /\ hero = InitHero
  /\ section = InitSection

SpecCard == InitCardPage /\ [][NextCard]_vars

(***************************************************************************)
(* HeroSlideshow (hero-slideshow.js)                                       *)
(***************************************************************************)
\* .hero-slideshow__slide elements in the markup; there is one dot per slide
HeroSlideCounts == {1, 2, 3}

\* a % b of two integers, b > 0: the result has the sign of a
Rem(a, b) == IF a >= 0 THEN a % b ELSE 0 - ((0 - a) % b)

\* updateDots
UpdateDots(h) ==
  [h EXCEPT !.activeDots = { i \in 0..(h.n - 1) : i = h.currentIndex }]

GoToSlideWithoutTimeout(h, index) ==
  IF h.isAnimating \/ index = h.currentIndex THEN h
  ELSE UpdateDots([h EXCEPT !.isAnimating = TRUE,
                            !.shown = (@ \ {h.currentIndex}) \cup {index},
                            !.transparent = (@ \cup {h.currentIndex}) \ {index},
                            !.currentIndex = index])

\* goToSlide(index).  slides[index] of an index outside the array is
\* undefined, and nextSlide.style then throws: the lock is taken and the
\* current slide hidden, nothing else happens
GoToSlide(h, index) ==
  IF h.isAnimating \/ index = h.currentIndex THEN h
  ELSE IF index \notin 0..(h.n - 1)
  THEN [h EXCEPT !.isAnimating = TRUE,
                 !.shown = @ \ {h.currentIndex},
                 !.transparent = @ \cup {h.currentIndex}]
  ELSE [UpdateDots([h EXCEPT !.isAnimating = TRUE,
                             !.shown = (@ \ {h.currentIndex}) \cup {index},
                             !.transparent = (@ \cup {h.currentIndex}) \ {index},
                             !.currentIndex = index])
          EXCEPT !.releases = @ + 1]

\* the index nextSlide passes to goToSlide
NextIndex(h) == Rem(h.currentIndex + 1, h.n)

PrevIndexWithoutLength(h) == Rem(h.currentIndex - 1, h.n)

\* the index prevSlide passes to goToSlide
PrevIndex(h) == Rem(h.currentIndex - 1 + h.n, h.n)

\* stopAutoplay
StopAutoplay(h) ==
  IF h.autoplayInterval
  THEN [h EXCEPT !.intervals = @ - 1, !.autoplayInterval = FALSE]
  ELSE h

\* startAutoplay
StartAutoplay(h) ==
  IF h.n <= 1 THEN h
  ELSE [StopAutoplay(h) EXCEPT !.intervals = @ + 1, !.autoplayInterval = TRUE]

\* the listeners bindEvents has registered, one per run, each run once
RECURSIVE DotListeners(_, _, _)
DotListeners(h, index, k) ==
  IF k = 0 THEN h ELSE DotListeners(GoToSlide(h, index), index, k - 1)

RECURSIVE StopListeners(_, _)
StopListeners(h, k) ==
  IF k = 0 THEN h ELSE StopListeners(StopAutoplay(h), k - 1)

RECURSIVE StartListeners(_, _)
StartListeners(h, k) ==
  IF k = 0 THEN h ELSE StartListeners(StartAutoplay(h), k - 1)

\* initSlideshow
InitSlideshow(h) ==
  StartAutoplay(UpdateDots([h EXCEPT
    !.shown = {0},
    !.transparent = @ \cup { i \in 0..(h.n - 1) : i # 0 }]))

\* connectedCallback
HeroConnect ==
  /\ ~hero.connected
  /\ hero.listeners < MaxConnects
  /\ LET h == [hero EXCEPT !.connected = TRUE, !.n = hero.elements, !.call = "connect"]
     IN hero' = IF h.n <= 1 THEN h
                ELSE [InitSlideshow(h) EXCEPT !.listeners = @ + 1]
  /\ UNCHANGED <<qsVars, cartVars, flyVars, doc, dialog, card, section>>

\* disconnectedCallback; the element is no longer under the pointer
HeroDisconnect ==
  /\ hero.connected
  /\ hero' = [StopAutoplay(hero) EXCEPT !.connected = FALSE, !.hover = FALSE,
                                        !.call = "disconnect"]
  /\ UNCHANGED <<qsVars, cartVars, flyVars, doc, dialog, card, section>>

\* click on a dot
HeroDotClick ==
  \E index \in 0..(hero.n - 1) :
    /\ hero.connected
    /\ hero.listeners > 0
    /\ hero' = [DotListeners(hero, index, hero.listeners) EXCEPT !.call = "dot"]
    /\ UNCHANGED <<qsVars, cartVars, flyVars, doc, dialog, card, section>>

\* nextSlide is called
HeroNextSlide ==
  /\ hero.connected
  /\ hero' = [GoToSlide(hero, NextIndex(hero)) EXCEPT !.call = "nextSlide"]
  /\ UNCHANGED <<qsVars, cartVars, flyVars, doc, dialog, card, section>>

\* prevSlide is called
HeroPrevSlide ==
  /\ hero.connected
  /\ hero' = [GoToSlide(hero, PrevIndex(hero)) EXCEPT !.call = "prevSlide"]
  /\ UNCHANGED <<qsVars, cartVars, flyVars, doc, dialog, card, section>>

\* an autoplay interval elapses
HeroAutoplayTick ==
  /\ hero.intervals > 0
  /\ hero' = [GoToSlide(hero, NextIndex(hero)) EXCEPT !.call = "autoplay"]
  /\ UNCHANGED <<qsVars, cartVars, flyVars, doc, dialog, card, section>>

\* 500 ms after an accepted goToSlide
HeroLockRelease ==
  /\ hero.releases > 0
  /\ hero' = [hero EXCEPT !.isAnimating = FALSE, !.releases = @ - 1, !.call = "timer"]
  /\ UNCHANGED <<qsVars, cartVars, flyVars, doc, dialog, card, section>>

\* the pointer enters the element
HeroMouseEnter ==
  /\ hero.connected
  /\ ~hero.hover
  /\ ~hero.hidden
  /\ hero' = [StopListeners(hero, hero.listeners) EXCEPT !.hover = TRUE,
                                                         !.call = "mouseenter"]
  /\ UNCHANGED <<qsVars, cartVars, flyVars, doc, dialog, card, section>>

\* the pointer leaves the element
HeroMouseLeave ==
  /\ hero.hover
  /\ ~hero.hidden
  /\ hero' = [StartListeners(hero, hero.listeners) EXCEPT !.hover = FALSE,
                                                          !.call = "mouseleave"]
  /\ UNCHANGED <<qsVars, cartVars, flyVars, doc, dialog, card, section>>

\* the page is hidden or shown again: the listeners on the document run
HeroVisibilityChange ==
  /\ hero' = [(IF hero.hidden
               THEN StartListeners(hero, hero.listeners)
               ELSE StopListeners(hero, hero.listeners))
               EXCEPT !.hidden = ~hero.hidden, !.call = "visibilitychange"]
  /\ UNCHANGED <<qsVars, cartVars, flyVars, doc, dialog, card, section>>

NextHero ==
  \/ HeroConnect
  \/ HeroDisconnect
  \/ HeroDotClick
  \/ HeroNextSlide
  \/ HeroPrevSlide
  \/ HeroAutoplayTick
  \/ HeroLockRelease
  \/ HeroMouseEnter
  \/ HeroMouseLeave
  \/ HeroVisibilityChange

\* a page with a <hero-slideshow>, parsed but not yet connected
InitHeroPage ==
  /\ IdleShop
  /\ qsValue = <<"1">>
  /\ qsMin = <<>>
  /\ qsMax = <<>>
  /\ qsChanges = 0
  /\ qsLast = [op |-> "init", from |-> <<>>]
  /\ doc = InitDoc
  /\ dialog = InitDialog
  /\ card = InitCard
  /\ section = InitSection
  /\ hero \in { [InitHero EXCEPT !.elements = k] : k \in HeroSlideCounts }

SpecHero == InitHeroPage /\ [][NextHero]_vars

\* every setTimeout callback runs
SpecHeroFair == SpecHero /\ WF_vars(HeroLockRelease)

(***************************************************************************)
(* The slideshow-with-text section (slideshow-with-text.js)                *)
(***************************************************************************)
\* [data-slide-content] elements of the section, each with its image and its
\* dot; with one slide or none initSlideshowWithText leaves the section alone
SectionSlideCounts == {2, 3, 4}

\* goToSlide(index)
SectionGoToSlide(s, index) ==
  IF index < 0 \/ index >= s.n THEN s
  ELSE IF s.isAnimating \/ index = s.currentIndex THEN s
  ELSE [s EXCEPT !.isAnimating = TRUE,
                 !.activeDots = (@ \ {s.currentIndex}) \cup {index},
                 !.exiting = @ \cup {s.currentIndex},
                 !.active = @ \ {s.currentIndex},
                 !.currentIndex = index,
                 !.swaps = @ \cup {[oldIndex |-> s.currentIndex, index |-> index]}]

\* nextSlide
SectionNextSlide(s) ==
  IF s.n = 0 THEN s ELSE SectionGoToSlide(s, Rem(s.currentIndex + 1, s.n))

\* startAutoplay
SectionStartAutoplay(s) ==
  IF ~s.autoplayEnabled THEN s
  ELSE [s EXCEPT !.intervals = (IF s.autoplayTimer THEN @ - 1 ELSE @) + 1,
                 !.autoplayTimer = TRUE]

\* stopAutoplay
SectionStopAutoplay(s) ==
  IF s.autoplayTimer
  THEN [s EXCEPT !.intervals = @ - 1, !.autoplayTimer = FALSE]
  ELSE s

\* the section after initSlideshowWithText, its first slide and dot active as
\* rendered
InitSlideshowWithText(n, autoplayEnabled) ==
  SectionStartAutoplay([InitSection EXCEPT
    !.n = n, !.autoplayEnabled = autoplayEnabled, !.active = {0}, !.activeDots = {0}])

\* click on a navigation dot
SectionDotClick ==
  \E index \in 0..(section.n - 1) :
    /\ section' = LET s == SectionGoToSlide(section, index)
                  IN IF s.autoplayEnabled THEN SectionStartAutoplay(s) ELSE s
    /\ UNCHANGED <<qsVars, cartVars, flyVars, doc, dialog, card, hero>>

\* the autoplay interval elapses
SectionAutoplayTick ==
  /\ section.intervals > 0
  /\ section' = SectionNextSlide(section)
  /\ UNCHANGED <<qsVars, cartVars, flyVars, doc, dialog, card, hero>>

\* 500 ms after goToSlide: the old slide is cleaned up, the new one shown
SectionSwap ==
  \E t \in section.swaps :
    /\ section' = [section EXCEPT !.exiting = @ \ {t.oldIndex},
                                  !.active = @ \cup {t.index},
                                  !.swaps = @ \ {t},
                                  !.releases = @ + 1]
    /\ UNCHANGED <<qsVars, cartVars, flyVars, doc, dialog, card, hero>>

\* 500 ms later: the animation lock is reset
SectionRelease ==
  /\ section.releases > 0
  /\ section' = [section EXCEPT !.isAnimating = FALSE, !.releases = @ - 1]
  /\ UNCHANGED <<qsVars, cartVars, flyVars, doc, dialog, card, hero>>

\* the pointer enters the section; stopAutoplay listens if autoplay is enabled
SectionMouseEnter ==
  /\ ~section.hover
  /\ section' = [(IF section.autoplayEnabled THEN SectionStopAutoplay(section)
                   ELSE section) EXCEPT !.hover = TRUE]
  /\ UNCHANGED <<qsVars, cartVars, flyVars, doc, dialog, card, hero>>

\* the pointer leaves the section; startAutoplay listens if autoplay is enabled
SectionMouseLeave ==
  /\ section.hover
  /\ section' = [(IF section.autoplayEnabled THEN SectionStartAutoplay(section)
                   ELSE section) EXCEPT !.hover = FALSE]
  /\ UNCHANGED <<qsVars, cartVars, flyVars, doc, dialog, card, hero>>

NextSection ==
  \/ SectionDotClick
  \/ SectionAutoplayTick
  \/ SectionSwap
  \/ SectionRelease
  \/ SectionMouseEnter
  \/ SectionMouseLeave

\* a page with a slideshow-with-text section, initialised
InitSectionPage ==
  /\ IdleShop
  /\ qsValue = <<"1">>
  /\ qsMin = <<>>
  /\ qsMax = <<>>
  /\ qsChanges = 0
  /\ qsLast = [op |-> "init", from |-> <<>>]
  /\ doc = InitDoc
  /\ dialog = InitDialog
  /\ card = InitCard
  /\ hero = InitHero
  /\ section \in { InitSlideshowWithText(n, b) : n \in SectionSlideCounts, b \in BOOLEAN }

SpecSection == InitSectionPage /\ [][NextSection]_vars

(***************************************************************************)
(* Restore from the page cache (CartIcon.onPageShow)                       *)
(***************************************************************************)
\* the freshness window of the stored record, in ms
FreshnessWindow == 10000

\* the age of the stored record is not followed beyond this, in ms
MaxAge == 10000

\* values another page of the shop, or another script, leaves in the record
OtherPageValues ==
  { <<"1">>, <<"3">>, <<"1", "0", "0">>, <<"NaN">>, Unparsable }

EnsureIgnoresTimestamp(b) ==
  IF b.stored = NoRecord \/ b.stored = Unparsable \/ b.stored = b.text THEN b
  ELSE IF ParseInt(b.stored) # NaN /\ ParseInt(b.stored) >= 0
       THEN RenderCartBubble(b, ParseInt(b.stored), FALSE, FALSE)
       ELSE b

\* ensureCartBubbleIsCorrect
EnsureCartBubbleIsCorrect(b) ==
  IF b.stored = NoRecord THEN b
  ELSE IF b.stored = Unparsable THEN b
  ELSE IF b.stored = b.text THEN b
  ELSE IF b.age < FreshnessWindow
       THEN (LET count == ParseInt(b.stored)
             IN IF count # NaN /\ count >= 0
                THEN RenderCartBubble(b, count, FALSE, FALSE)
                ELSE b)
       ELSE b

\* onPageShow
OnPageShow(b, persisted) == IF persisted THEN EnsureCartBubbleIsCorrect(b) ELSE b

\* the window fires pageshow
PageShow ==
  \E persisted \in BOOLEAN :
    /\ cfg.intercepted
    /\ bubble' = OnPageShow(bubble, persisted)
    /\ UNCHANGED <<srvCart, net, timers, lastFetched, ops, cfg, hdrCount, drawer, dispatched,
                   failures, events>>
    /\ UNCHANGED <<qsVars, flyVars, uiVars>>

\* while the page is away, the record in session storage is replaced; a page
\* with fetches in flight is not kept in the cache
OtherPageStores ==
  \E value \in OtherPageValues :
    /\ cfg.intercepted
    /\ Quiescent
    /\ bubble' = [bubble EXCEPT !.stored = value, !.age = 0]
    /\ UNCHANGED <<srvCart, net, timers, lastFetched, ops, cfg, hdrCount, drawer, dispatched,
                   failures, events>>
    /\ UNCHANGED <<qsVars, flyVars, uiVars>>

\* five seconds pass
TimePasses ==
  /\ bubble.age + 5000 <= MaxAge
  /\ bubble' = [bubble EXCEPT !.age = @ + 5000]
  /\ UNCHANGED <<srvCart, net, timers, lastFetched, ops, cfg, hdrCount, drawer, dispatched,
                 failures, events>>
  /\ UNCHANGED <<qsVars, flyVars, uiVars>>

NextRestore ==
  \/ PageShow
  \/ OtherPageStores
  \/ TimePasses
  \/ NextBadge

SpecRestore == InitBadge /\ [][NextRestore]_vars

(***************************************************************************)
(* Cart badge properties                                                   *)
(***************************************************************************)
\* the count a badge displays
Displayed(text) == ParseInt(text)

\* a step in which the badge receives a notification with a known itemCount
\* while it displays a count
KnownCountReceived ==
  /\ events'.seq = events.seq + 1
  /\ events'.itemCount # Undefined
  /\ Displayed(bubble.text) # NaN

\* the count the badge is specified to display after that step
ExpectedCount ==
  IF events'.source = "product-form-component"
  THEN Displayed(bubble.text) + events'.itemCount
  ELSE events'.itemCount

\* C3 as stated: on a notification with a known itemCount n, for every
\* displayed count c >= 0 and every n >= 0, the displayed count becomes c + n
\* if the source is the product form and n otherwise.
C3_CountAddedOrReplaced ==
  [][KnownCountReceived => Displayed(bubble'.text) = ExpectedCount]_vars

\* C3, amended: the displayed count becomes c + n (product form) or n (any
\* other source) when that number is below 100; when it is 100 or more the
\* badge text becomes empty.
C3_CountAddedOrReplacedBelow100 ==
  [][KnownCountReceived =>
       bubble'.text = IF ExpectedCount < 100 THEN ToText(ExpectedCount) ELSE <<>>]_vars

C3_Witness ==
  /\ events.seq > 0
  /\ events.source = "product-form-component"
  /\ events.itemCount = 2
  /\ Displayed(events.before) = 1
  /\ bubble.text = <<"3">>

(***************************************************************************)
(* Cart client properties                                                  *)
(***************************************************************************)
OpIds == DOMAIN ops

\* the mutating fetches of an invocation that are still in flight
InFlight(i) ==
  { r \in BagToSet(net) : r.op = i /\ r.cont \in {"addItem", "updateItem"} }

\* C1: for addItem and updateItem, a 200 response carrying an error payload is
\* treated as a rejected request: the promise rejects, no success callback
\* runs and no re-sync of badge or drawer is started.
C1_ErrorPayloadIsFailure ==
  \A i \in OpIds :
    ops[i].status = "errpayload" =>
      /\ ops[i].state = "rejected"
      /\ ops[i].onSuccess = 0
      /\ ops[i].resyncs = 0

\* the count a badge displays
\* C2: once every in-flight fetch has settled, the cart badge displays the
\* item_count of the /cart.js fetch that the platform answered last for it,
\* in whatever order the responses of concurrent calls settle.
C2_BadgeShowsLastFetchedCount ==
  (Quiescent /\ lastFetched.bubble # NaN) => Displayed(bubble.text) = lastFetched.bubble

C6_MissingVariantRejectedBeforeAnything ==
  /\ [](\A i \in OpIds :
          (ops[i].kind = "addItem" /\ ops[i].variantId = "") =>
            /\ ops[i].state = "rejected"
            /\ ops[i].onError = 1
            /\ ops[i].onSuccess = 0
            /\ ops[i].calls = 0
            /\ ops[i].anims = 0
            /\ ops[i].resyncs = 0)
  /\ [][(Len(ops') = Len(ops) + 1 /\ ops'[Len(ops')].variantId = "")
          => UNCHANGED <<srvCart, net, timers, hdrCount, bubble, drawer, dispatched, failures, events>>]_vars

C6_Witness ==
  \E i \in OpIds : ops[i].kind = "addItem" /\ ops[i].variantId = ""

(***************************************************************************)
(* Cart drawer properties                                                  *)
(***************************************************************************)
DrawerOps == { i \in OpIds : ops[i].kind \in {"setQuantity", "removeItem"} }

\* C7: setting a line's quantity to 0 issues one update call, and if that
\* call fails in any way (request rejected or non-OK status) the removal mark
\* of the line is reverted.
C7_FailedRemovalRevertsMark ==
  \A i \in DrawerOps :
    ops[i].qty = 0 =>
      /\ ops[i].calls = 1
      /\ ops[i].status \in {"notok", "reject"} => ~ops[i].markLeft

\* the removal of a line has succeeded on the platform and has run to its end
Removed(key) ==
  /\ srvCart[key] = 0
  /\ \E i \in DrawerOps :
       /\ ops[i].variantId = key /\ ops[i].qty = 0
       /\ ops[i].status = "ok" /\ ops[i].state = "settled"

\* C8: when the removal of a line has succeeded on the platform, no fetch has
\* failed and nothing is pending any more, the line is absent from the
\* drawer's rendered item list.
C8_RemovedLineNotRendered ==
  \A key \in Lines :
    (Quiescent /\ failures = 0 /\ Removed(key)) => ~drawer.items[key].present

\* C9: the quantity the drawer sends in an update call is never negative.
C9_SentQuantityNeverNegative ==
  \A r \in BagToSet(net) : r.url = "change" => r.qty >= 0

(***************************************************************************)
(* Quantity control properties                                             *)
(***************************************************************************)
\* C10: after any sequence of increment clicks, decrement clicks and direct
\* inputs followed by a change event, the rendered value lies within the
\* configured [min, max], for every configured min and max, a bound of 0
\* included.
C10_ValueWithinConfiguredBounds ==
  qsLast.op # "init" => QsInRange(ParseInt(qsValue))

\* the last click left the value and dispatched nothing
QsStepWasNoOp == qsValue = qsLast.from /\ qsChanges = 0

\* the last click moved the value by d and dispatched one change event
QsStepMovedBy(d) ==
  /\ ParseInt(qsValue) = ParseInt(qsLast.from) + d
  /\ qsChanges = 1

\* C11: a decrement at (or below) the configured min and an increment at (or
\* above) the configured max leave the value unchanged and emit no change
\* notification; every other decrement or increment changes the value by
\* exactly one and emits exactly one change notification.
C11_StepNoOpAtBoundElseByOne ==
  /\ qsLast.op = "decrease" =>
       IF ParseInt(qsLast.from) <= QsLowerBound
       THEN QsStepWasNoOp ELSE QsStepMovedBy(-1)
  /\ qsLast.op = "increase" =>
       IF QsHasMax /\ ParseInt(qsLast.from) >= ParseInt(qsMax)
       THEN QsStepWasNoOp ELSE QsStepMovedBy(1)

(***************************************************************************)
(* Fly-to-cart properties                                                  *)
(***************************************************************************)
FlyIds == DOMAIN fly

\* C12: every fly-to-cart element runs its animation routine at most once,
\* whatever the order of the observer callbacks and the frame callback, and
\* its observer is disconnected once the routine has started.
C12_AnimatesAtMostOnce ==
  \A i \in FlyIds :
    /\ fly[i].animates <= 1
    /\ fly[i].animates = 1 => fly[i].hasAnimated /\ ~fly[i].observing

\* an element started by its observer, whose frame callback has run too and
\* found a rect without valid dimensions
C12_Witness ==
  \E i \in FlyIds :
    /\ fly[i].animates = 1
    /\ ~fly[i].frame
    /\ fly[i].tick = "pending"
    /\ ~ValidDimensions(fly[i].srcLayout, fly[i].dstLayout)

\* C13: an element connected without its source or without its destination
\* has removed itself: no observer is registered, no frame callback is
\* scheduled, no positioning parameter is set and the animation routine
\* never runs.
C13_MissingEndRemovesItself ==
  \A i \in FlyIds :
    (~fly[i].source \/ ~fly[i].destination) =>
      /\ ~fly[i].connected
      /\ ~fly[i].observing
      /\ ~fly[i].frame
      /\ fly[i].style = NoStyle
      /\ fly[i].animates = 0
      /\ fly[i].tick = "none"

C13_Witness ==
  \E i \in FlyIds : fly[i].source /\ ~fly[i].destination /\ ~fly[i].connected

\* the number a positioning parameter holds, in pixels
Pixels(text) == ParseInt(text)

\* the positioning parameters are the centre of the source rect and the
\* destination centre minus the source centre
CentreToCentre(el) ==
  /\ 2 * Pixels(el.style.startX) = 2 * el.sourceRect.left + el.sourceRect.width
  /\ 2 * Pixels(el.style.startY) = 2 * el.sourceRect.top + el.sourceRect.height
  /\ 2 * (Pixels(el.style.startX) + Pixels(el.style.travelX))
       = 2 * el.destinationRect.left + el.destinationRect.width
  /\ 2 * (Pixels(el.style.startY) + Pixels(el.style.travelY))
       = 2 * el.destinationRect.top + el.destinationRect.height

\* the rects of the specification's example
ExampleRects(el) ==
  /\ el.sourceRect = Rect(0, 0, 40, 40)
  /\ el.destinationRect = Rect(300, 10, 20, 20)

\* C14 as stated: the start point is the centre of the source rect and the
\* travel delta is destination centre minus source centre; for the source
\* rect {0,0,40,40} and the destination rect {300,10,20,20} the start point
\* is (20,20) and the travel delta is (300,-10).
C14_StartAndTravelAsExample ==
  \A i \in FlyIds :
    fly[i].animates > 0 =>
      /\ CentreToCentre(fly[i])
      /\ ExampleRects(fly[i]) =>
           /\ fly[i].style.startX = <<"2", "0", "p", "x">>
           /\ fly[i].style.startY = <<"2", "0", "p", "x">>
           /\ fly[i].style.travelX = <<"3", "0", "0", "p", "x">>
           /\ fly[i].style.travelY = <<"-", "1", "0", "p", "x">>

\* C14, amended: the start point is the centre of the source rect and the
\* travel delta is destination centre minus source centre; for the source
\* rect {0,0,40,40} and the destination rect {300,10,20,20} the start point
\* is (20,20) and the travel delta is (290,0).
C14_StartAndTravelCentreToCentre ==
  \A i \in FlyIds :
    fly[i].animates > 0 =>
      /\ CentreToCentre(fly[i])
      /\ ExampleRects(fly[i]) =>
           /\ fly[i].style.startX = <<"2", "0", "p", "x">>
           /\ fly[i].style.startY = <<"2", "0", "p", "x">>
           /\ fly[i].style.travelX = <<"2", "9", "0", "p", "x">>
           /\ fly[i].style.travelY = <<"0", "p", "x">>

C14_Witness ==
  \E i \in FlyIds : fly[i].animates > 0 /\ ExampleRects(fly[i])

\* the animation routine of an element has started
FlyStarted(i) == i \in FlyIds /\ fly[i].animates > 0

\* the element is no longer in the document
FlyRemoved(i) == i \in FlyIds /\ ~fly[i].connected

\* C15: once the animation routine of an element has started, its
\* positioning parameters are set; the element leaves the document only
\* after the frame tick and after every animation detected at that tick has
\* settled, finished or cancelled; and it always eventually leaves the
\* document, also when a transition is cancelled or none is detected.
C15_RemovedAfterTickAndTransitions ==
  /\ [](\A i \in FlyIds :
          fly[i].animates > 0 =>
            /\ fly[i].style.startX # <<>> /\ fly[i].style.startY # <<>>
            /\ fly[i].style.travelX # <<>> /\ fly[i].style.travelY # <<>>
            /\ ~fly[i].connected => fly[i].tick = "done" /\ fly[i].awaiting = 0
            /\ fly[i].tick = "done" => (fly[i].connected <=> fly[i].awaiting > 0))
  /\ \A i \in 1..MaxFly : FlyStarted(i) ~> FlyRemoved(i)

\* an element removed after one of its two transitions was cancelled
C15_Witness ==
  \E i \in FlyIds :
    /\ fly[i].animates = 1 /\ ~fly[i].connected
    /\ fly[i].detected = 2 /\ fly[i].cancelled = 1

(***************************************************************************)
(* addItem and its animation                                               *)
(***************************************************************************)
\* the elements an invocation created before it had issued any network call
CreatedBeforeCall(i) == { j \in FlyIds : fly[j].op = i /\ fly[j].callsBefore = 0 }

\* a step of an element created earlier
AnimationStep == \E j \in FlyIds : fly'[j] # fly[j]

\* a step in which an invocation made earlier settles or starts its re-sync
RequestStep == \E i \in OpIds : ops'[i] # ops[i]

\* C16: an addItem invocation given a source element on a page with the cart
\* button creates one fly-to-cart element before it issues its add request,
\* whether the request then succeeds or fails; no step of the request changes
\* an element, and no step of an element changes an invocation, the fetches
\* in flight or anything else of the cart client.
C16_AnimationIndependentOfRequest ==
  /\ [](\A i \in OpIds :
          (ops[i].kind = "addItem" /\ ops[i].sourceElement /\ cfg.cartIcon
             /\ ~VariantMissing(ops[i].variantId)) =>
            /\ ops[i].calls = 1
            /\ Cardinality(CreatedBeforeCall(i)) = 1
            /\ Cardinality({ j \in FlyIds : fly[j].op = i }) = 1)
  /\ [][AnimationStep => UNCHANGED cartVars]_vars
  /\ [][RequestStep => \A j \in FlyIds : fly'[j] = fly[j]]_vars

\* a rejected invocation whose animation has run to its end
C16_Witness ==
  \E i \in OpIds :
    /\ ops[i].kind = "addItem" /\ ops[i].sourceElement
    /\ ops[i].state = "rejected" /\ ops[i].status = "notok"
    /\ \E j \in CreatedBeforeCall(i) : fly[j].animates = 1 /\ ~fly[j].connected

(***************************************************************************)
(* Cart badge rendering properties                                         *)
(***************************************************************************)
\* the /cart.js fetches of the badge in a bag of fetches
BadgeFetches(bag) ==
  LET rs == { r \in BagToSet(bag) : r.cont = "fetchCartCount" }
  IN SumOver([r \in rs |-> bag[r]], rs)

\* a step in which the badge receives a notification
NotificationReceived == events'.seq = events.seq + 1

\* a step in which the answer of the platform to a fetch of the badge arrives
FetchedCountArrives(r) ==
  /\ r \in BagToSet(net)
  /\ r.cont = "fetchCartCount" /\ r.phase = "served"
  /\ BadgeFetches(net') = BadgeFetches(net) - 1
  /\ net' = net (-) One(r)

\* C17: on a notification without itemCount the badge renders nothing and
\* starts one fetch of the cart snapshot, and it renders the fetched count
\* when the answer arrives; a notification with itemCount 0 is rendered
\* directly (0, or the displayed count plus 0 from the product form) and
\* starts no fetch.
C17_AbsentCountIsFetched ==
  /\ [][(NotificationReceived /\ events'.itemCount = Undefined) =>
          /\ bubble' = bubble
          /\ BadgeFetches(net') = BadgeFetches(net) + 1]_vars
  /\ [][(NotificationReceived /\ events'.itemCount = 0) =>
          /\ BadgeFetches(net') = BadgeFetches(net)
          /\ bubble'.hidden
          /\ Displayed(bubble'.text) =
               IF events'.source = "product-form-component"
               THEN Displayed(bubble.text) ELSE 0]_vars
  /\ [][\A r \in BagToSet(net) :
          FetchedCountArrives(r) => Displayed(bubble'.text) = ItemCount(r.cart)]_vars

\* the only notification carried no itemCount, and the count fetched for it
\* has been rendered
C17_Witness ==
  /\ events.seq = 1
  /\ events.itemCount = Undefined
  /\ bubble.renders = 1
  /\ BadgeFetches(net) = 0

\* C18: after every render the badge is hidden if and only if the count it
\* then displays is 0, on the replace path and on the product-form add path.
C18_HiddenIffDisplayedZero ==
  bubble.renders > 0 => (bubble.hidden <=> Displayed(bubble.text) = 0)

\* C19: a render of a count below 100 writes the literal number; a render of
\* a count of 100 or more writes no text and still shows the badge as
\* non-empty (not hidden, cart button marked as having a cart).
C19_LiteralBelow100ElseIndicator ==
  [][KnownCountReceived =>
       IF ExpectedCount < 100
       THEN bubble'.text = ToText(ExpectedCount)
       ELSE bubble'.text = <<>> /\ ~bubble'.hidden /\ bubble'.hasCart]_vars

\* C20: after every render session storage holds the count that render
\* produced, for every count >= 0, counts of 100 or more included.
C20_StoredCountIsRenderedCount ==
  [][KnownCountReceived => ParseInt(bubble'.stored) = ExpectedCount]_vars

(***************************************************************************)
(* <cart-icon> instances and the fetch wrapper                             *)
(***************************************************************************)
\* #interceptCartRequests of instance i
InterceptCartRequests(page, i) ==
  IF page.intercepted THEN page
  ELSE [page EXCEPT !.intercepted = TRUE, !.self = i, !.installs = @ + 1]

\* the bubble of an instance as it connects: instance 1 keeps its nodes,
\* instance 2 comes from the template; session storage is shared
Connecting(i) ==
  IF i = 1 THEN bubble
  ELSE [RenderBubble(srvCart) EXCEPT !.stored = bubble.stored, !.age = bubble.age,
                                     !.renders = bubble.renders]

\* connectedCallback of a <cart-icon>
IconConnect ==
  \E i \in IconIds :
    LET after == EnsureCartBubbleIsCorrect(Connecting(i))
        page == InterceptCartRequests([cfg EXCEPT !.icons = @ \cup {i}], i)
    IN
    /\ i \notin cfg.icons
    /\ i = 1 \/ cfg.intercepted
    /\ cfg' = IF i = 1 THEN page ELSE [page EXCEPT !.second = Shown(after)]
    /\ bubble' = IF i = 1 THEN after
                 ELSE [bubble EXCEPT !.stored = after.stored, !.age = after.age,
                                     !.renders = after.renders]
    /\ UNCHANGED <<srvCart, net, timers, lastFetched, ops, hdrCount, drawer, dispatched,
                   failures, events>>
    /\ UNCHANGED <<qsVars, flyVars, uiVars>>

\* disconnectedCallback of a <cart-icon>
IconDisconnect ==
  \E i \in cfg.icons :
    /\ cfg' = [cfg EXCEPT !.icons = @ \ {i}]
    /\ UNCHANGED <<srvCart, net, timers, lastFetched, ops, hdrCount, bubble, drawer,
                   dispatched, failures, events>>
    /\ UNCHANGED <<qsVars, flyVars, uiVars>>

NextIntercept ==
  \/ IconConnect
  \/ IconDisconnect
  \/ UpdateItem
  \/ UpdateItemResponse
  \/ UpdateCartResponse
  \/ RefreshCartDrawerResponse
  \/ FetchCartCount
  \/ FetchCartCountResponse
  \/ Serve

SpecIntercept == InitClient /\ [][NextIntercept]_vars

\* what instance i shows
ShownBy(page, b, i) == IF i = 1 THEN Shown(b) ELSE page.second

\* C22: window.fetch is wrapped at most once however many instances connect
\* or reconnect; the response of a cart-mutating request sets exactly one
\* timer; when the count fetched by that timer arrives, the one connected
\* badge displays it; and the response of /cart.js sets no timer.
C22_InstalledOnceUpdatesConnectedBadge ==
  /\ [](cfg.installs <= 1 /\ (cfg.icons # {} => cfg.installs = 1))
  /\ [][\A r \in BagToSet(net) :
          (net' = net (-) One(r) /\ r.url = "cartjs") => timers' = timers]_vars
  /\ [][\A i \in DOMAIN ops :
          (cfg.intercepted /\ ops[i].state = "pending" /\ ops'[i].state # "pending") =>
            BagCardinality(timers') =
              BagCardinality(timers) + (IF ops'[i].status = "reject" THEN 0 ELSE 1)]_vars
  /\ [][\A r \in BagToSet(net), i \in IconIds :
          (FetchedCountArrives(r) /\ cfg.icons = {i}) =>
            Displayed(ShownBy(cfg', bubble', i).text) = ItemCount(r.cart)]_vars

(***************************************************************************)
(* A drawer mutation on a page with the cart icon                          *)
(***************************************************************************)
\* the shopper steps a quantity in the open drawer, once; the drawer's
\* cart:update and the fetch wrapper both reach the badge
FirstUpdateQuantity == ops = <<>> /\ UpdateQuantity

NextFallback ==
  \/ FirstUpdateQuantity
  \/ SetQuantityResponse
  \/ RefreshResponse
  \/ RefreshCartResponse
  \/ UpdateCartDataResponse
  \/ FetchCartCount
  \/ FetchCartCountResponse
  \/ Serve

InitFallback ==
  /\ InitClient
  /\ drawer.open
  /\ cfg.intercepted

SpecFallback == InitFallback /\ [][NextFallback]_vars

(***************************************************************************)
(* One user action and everything it sets off                              *)
(***************************************************************************)
FirstAddItem == ops = <<>> /\ AddItem

FirstSetQuantity == ops = <<>> /\ SetQuantity

FirstRemoveItem == ops = <<>> /\ RemoveItem

NextQuiesce ==
  \/ FirstAddItem
  \/ FirstUpdateQuantity
  \/ FirstSetQuantity
  \/ FirstRemoveItem
  \/ AddItemResponse
  \/ UpdateCartResponse
  \/ RefreshCartDrawerResponse
  \/ SetQuantityResponse
  \/ RemoveItemResponse
  \/ RemoveItemTransitionEnd
  \/ RemoveItemDataResponse
  \/ RefreshResponse
  \/ RefreshCartResponse
  \/ UpdateCartDataResponse
  \/ FetchCartCount
  \/ FetchCartCountResponse
  \/ Serve
  \/ FlyStep

\* every fetch settles, with a response or a failure, and every timer fires
QuiesceFairness ==
  /\ WF_vars(AddItemResponse)
  /\ WF_vars(UpdateCartResponse)
  /\ WF_vars(RefreshCartDrawerResponse)
  /\ WF_vars(SetQuantityResponse)
  /\ WF_vars(RemoveItemResponse)
  /\ WF_vars(RemoveItemTransitionEnd)
  /\ WF_vars(RemoveItemDataResponse)
  /\ WF_vars(RefreshResponse)
  /\ WF_vars(RefreshCartResponse)
  /\ WF_vars(UpdateCartDataResponse)
  /\ WF_vars(FetchCartCount)
  /\ WF_vars(FetchCartCountResponse)
  /\ WF_vars(Serve)

SpecQuiesce == InitClient /\ [][NextQuiesce]_vars /\ QuiesceFairness

\* C23: a single mutation renders the badge from one path only: the re-fetch
\* of the fetch wrapper does not render when the notification path has
\* rendered for that mutation.
C23_OneMutationRendersOnce ==
  (Len(ops) = 1 /\ events.seq = 0) => bubble.renders <= 1

(***************************************************************************)
(* Restore properties                                                      *)
(***************************************************************************)
\* a pageshow of a page restored from the cache
RestoreStep ==
  /\ bubble' = OnPageShow(bubble, TRUE)
  /\ UNCHANGED <<net, events>>

\* the stored record holds a count
StoredIsCount(b) ==
  /\ b.stored # NoRecord /\ b.stored # Unparsable
  /\ ParseInt(b.stored) # NaN /\ ParseInt(b.stored) >= 0

\* C21: on a restore from the cache, a stored count equal to the rendered one
\* changes nothing; a different stored count within the 10 s window is
\* rendered without animation; a stale, missing or unparsable record leaves
\* the badge unchanged; and a second check right after the first changes
\* nothing.
C21_RestoreCorrectsOnlyWhenFresh ==
  /\ [][RestoreStep =>
          IF StoredIsCount(bubble) /\ bubble.stored # bubble.text
             /\ bubble.age < FreshnessWindow
          THEN /\ bubble'.text = CountText(ParseInt(bubble.stored))
               /\ ~bubble'.animates
          ELSE bubble' = bubble]_vars
  /\ [](EnsureCartBubbleIsCorrect(EnsureCartBubbleIsCorrect(bubble))
          = EnsureCartBubbleIsCorrect(bubble))

\* a badge corrected silently to the stored count 3, with no notification
C21_Witness ==
  /\ events.seq = 0
  /\ bubble.renders = 1
  /\ bubble.text = <<"3">>
  /\ bubble.stored = <<"3">>
  /\ ~bubble.animates


(***************************************************************************)
(* Properties of the drawer's open state                                   *)
(***************************************************************************)
\* a cart:update notification of another component is delivered
NotificationStep == events'.seq = events.seq + 1

\* C24: a notification opens the drawer iff its source is the product form
\* and it carries no error; any other notification leaves the open state as
\* it was and only starts a refresh
C24_OpensIffProductFormWithoutError ==
  [][NotificationStep =>
       /\ drawer'.open = (drawer.open \/
                            (events'.source = "product-form-component" /\ ~events'.didError))
       /\ drawer'.items = drawer.items
       /\ BagCardinality(net') = BagCardinality(net) + 1
       /\ BagIn(NewReq("page", "refresh", 0, "none", 0), net')]_vars

C24_Witness ==
  /\ events.seq = 1
  /\ events.source = "product-form-component"
  /\ ~events.didError
  /\ drawer.open
  /\ drawer.openedAt = 250
  /\ BagIn(NewReq("page", "refresh", 0, "none", 0), net)

\* C25: the body carries the scroll-lock class exactly when aria-hidden says
\* the drawer is open, and a closing step leaves the page at the position it
\* had when the drawer was opened
C25_LockIffOpenAndScrollKept ==
  /\ [][doc'.overflowHidden = drawer'.open]_vars
  /\ [][(drawer.open /\ ~drawer'.open) => doc'.scrollY = drawer.openedAt]_vars

C25_Witness ==
  /\ ~drawer.open
  /\ ~doc.overflowHidden
  /\ drawer.openedAt = 100
  /\ doc.scrollY = 100
  /\ events.seq = 1


(***************************************************************************)
(* Properties of CartDrawer.refresh                                        *)
(***************************************************************************)
\* the page fetches of refresh calls in a bag that are in a phase
PageFetches(bag, phase) ==
  LET rs == { r \in BagToSet(bag) : r.cont = "refresh" /\ r.phase = phase }
  IN SumOver(bag, rs)

\* the answered page fetches of refresh calls
PagesServed == { r \in BagToSet(net) : r.cont = "refresh" /\ r.phase = "served" }

\* the page fetch of a refresh is answered and the fetched page is spliced
PageSpliced == PageFetches(net', "served") < PageFetches(net, "served")

\* the page fetch of a refresh fails: it rejects, or its answer holds no
\* #cart-drawer
PageFails ==
  /\ PageFetches(net', "sent") < PageFetches(net, "sent")
  /\ PageFetches(net', "served") = PageFetches(net, "served")

\* C26: the splice of a refresh leaves the footer present iff the fetched
\* drawer has one, makes the item list and the count in the drawer's header
\* those of the fetched drawer, and changes nothing else
C26_SpliceTakesFetchedRegions ==
  [][PageSpliced =>
       /\ \E r \in PagesServed :
            /\ drawer'.footer = RenderDrawer(r.cart, FALSE).footer
            /\ drawer'.items = RenderItems(r.cart)
            /\ drawer'.count = RenderDrawer(r.cart, FALSE).count
       /\ drawer'.open = drawer.open
       /\ UNCHANGED <<hdrCount, bubble, doc, srvCart>>]_vars

\* a refresh has added the footer to a drawer rendered without one
C26_Witness ==
  /\ drawer.footer
  /\ drawer.items["b"].present
  /\ drawer.count = <<"(", "2", ")">>
  /\ hdrCount.text = <<"0">>

\* C27: a refresh whose page fetch fails leaves the item list and the footer
\* as they are
C27_FailedFetchKeepsItemsAndFooter ==
  [][PageFails => (drawer'.items = drawer.items /\ drawer'.footer = drawer.footer)]_vars


(***************************************************************************)
(* Properties of the dialog                                                *)
(***************************************************************************)
DialogState(d) ==
  IF ~d.open THEN "Closed" ELSE IF d.closing THEN "Closing" ELSE "Open"

DialogMoves ==
  { <<"Closed", "Open">>, <<"Open", "Closing">>, <<"Closing", "Closed">> }

ResizeSettled == dialog.resize /\ ~dialog'.resize

\* the window is narrower than a configured minimum or wider than a
\* configured maximum
OutsideRange ==
  \/ dialog.minWidth # NoAttr /\ doc.innerWidth < Number(dialog.minWidth)
  \/ dialog.maxWidth # NoAttr /\ doc.innerWidth > Number(dialog.maxWidth)

\* C29: the debounced resize handler closes an open dialog iff the window's
\* width is outside the configured range, also when only one end is configured
C29_ResizeClosesIffOutsideRange ==
  [][(ResizeSettled /\ DialogState(dialog) = "Open") =>
       ((DialogState(dialog') = "Closing") = OutsideRange)]_vars


(***************************************************************************)
(* Properties of the product card                                          *)
(***************************************************************************)
\* the add request of invocation i failed: the network, a non-OK status or an
\* error payload
AddFailed(i) == ops[i].status \in {"invalid", "reject", "notok", "errpayload"}

\* C30: a failed add-to-cart of a product card ends in the catch block, which
\* puts the button back to 'default' and enables it, without a
\* product-card:added event; and no invocation sends a second request
C30_FailedAddRevertsButton ==
  /\ [][\A i \in DOMAIN ops :
          (AddFailed(i) /\ i \in card'.succeeded \cup card'.reverted) =>
            i \in card'.reverted]_vars
  /\ [][card'.reverted # card.reverted =>
          /\ card'.state = "default"
          /\ ~card'.disabled
          /\ ~card'.busy
          /\ card'.added = card.added]_vars
  /\ [][\A i \in DOMAIN ops' : ops'[i].calls <= 1]_vars


\* the add requests started from the card's button that are in flight
CardAddsInFlight ==
  LET rs == { r \in BagToSet(net) : r.url = "add" /\ r.cont \in {"addItem", "addWithFetch"} }
  IN SumOver(net, rs)

\* C31: while an add request started from the button is in flight the button
\* is disabled and in state 'adding', and at most one such request is in flight
C31_InFlightMeansDisabledAdding ==
  /\ CardAddsInFlight > 0 => (card.disabled /\ card.state = "adding")
  /\ CardAddsInFlight <= 1

\* ---------------------------------------------------------------------------
\* Properties of the callbacks of CartHandler.addItem
\* ---------------------------------------------------------------------------

\* the calls of addItem that have settled
SettledAdds == { i \in DOMAIN ops : ops[i].kind = "addItem" /\ ops[i].state # "pending" }

\* C32: every call of addItem invokes at most one of its callbacks, at most
\* once, and a settled call exactly one: onSuccess if and only if the promise
\* resolved, onError if and only if it rejected, also when a callback throws
C32_ExactlyOneCallbackOnce ==
  /\ \A i \in DOMAIN ops : ops[i].kind = "addItem" => ops[i].onSuccess + ops[i].onError <= 1
  /\ \A i \in SettledAdds :
       /\ ops[i].onSuccess + ops[i].onError = 1
       /\ ops[i].onSuccess = 1 <=> ops[i].state = "resolved"
       /\ ops[i].onError = 1 <=> ops[i].state = "rejected"

\* ---------------------------------------------------------------------------
\* Termination of the chain one user action sets off
\* ---------------------------------------------------------------------------

\* C33: after one user action (add to cart, quantity change, line removal)
\* and no further input, the notifications, refreshes, re-syncs and intercepted
\* fetches it sets off come to an end: eventually no request is in flight and
\* no timer is pending, and it stays so
C33_ReachesQuiescence == <>[]Quiescent

\* a drawer mutation on a page with the cart icon has run its whole chain
C33_Witness ==
  /\ ops # <<>>
  /\ ops[1].kind \in {"setQuantity", "removeItem"}
  /\ ops[1].status = "ok"
  /\ cfg.intercepted
  /\ dispatched > 0
  /\ Quiescent

\* ---------------------------------------------------------------------------
\* Properties of the dialog's events
\* ---------------------------------------------------------------------------

\* C34: dialog:open and dialog:close alternate, starting with dialog:open, and
\* showModal runs at most once per open
C34_OpenAndCloseAlternate ==
  /\ ~dialog.repeated
  /\ dialog.showModals <= 1

\* ---------------------------------------------------------------------------
\* Properties of the hero slideshow
\* ---------------------------------------------------------------------------
Navigations == {"dot", "nextSlide", "prevSlide", "autoplay"}

C37_PausedOnHoverAndWhenHidden ==
  (hero.hover \/ hero.hidden) => hero.intervals = 0

\* C38: at most one autoplay interval runs, and none while the element is
\* disconnected
C38_OneIntervalNoneAfterDisconnect ==
  /\ hero.intervals <= 1
  /\ ~hero.connected => hero.intervals = 0

\* ---------------------------------------------------------------------------
\* Properties of the slideshow-with-text section
\* ---------------------------------------------------------------------------

\* C39: with autoplay enabled no autoplay timer runs while the pointer is over
\* the section, also after a click on a dot, and at most one timer runs
C39_PausedWhileHoveredOneTimer ==
  /\ (section.autoplayEnabled /\ section.hover) => section.intervals = 0
  /\ section.intervals <= 1

====
